---- MODULE Spec2Model ----
(***************************************************************************)
(* The concurrent link-accessibility validator of web-analyzer             *)
(* (internal/analyzer, network.go in its worker-pool revision):            *)
(*   linkAccessibilityChecker      one probe: the retry loop over one URL  *)
(*   linkAccessibilityCheckWorker  a pool goroutine ranging over jobs      *)
(*   validateLinkAccessibility     spawn, enqueue, close, join, drain      *)
(* Goroutines of the pool are anonymous in the source, so the pool is a    *)
(* bag of goroutine-local states.                                          *)
(* and its caller with the analyses of parsers.go:                         *)
(*   AnalyzePage                   load, parse, analyse, validate, report  *)
(*   loadWebPage                   the retry loop fetching the page        *)
(*   findHTMLVersion, countHeadings, extractLinks, detectLoginForm         *)
(* Strings the analyses take apart are sequences of tokens.                *)
(***************************************************************************)
EXTENDS Integers, Sequences, FiniteSets, Bags, TLC

\* ---------------------------------------------------------------- constants
maxRetries == 3
initialBackoff == 1
numWorkers == 10

\* ------------------------------------------------------------------- bounds
\* longest LinkSet (internal plus external) built from arbitrary URLs
MaxLinks == 2
\* longest LinkSet of always-reachable URLs, long enough to exceed numWorkers
MaxPoolLinks == 11
\* longest LinkSet built from the URLs that answer with one fixed status
MaxProbeLinks == 1
\* most nodes before the <html> element, anchors, controls of a form, forms and
\* controls outside forms of a document analysed
MaxProlog == 2
MaxAnchors == 2
MaxControls == 2
MaxForms == 2
MaxLoose == 1

\* -------------------------------------------------------------- environment
\* The URLs of the test servers: what the server behind each one answers.
URLs == {"ok", "s500", "refused", "flaky1", "flaky2", "bad"}

\* URLs of a server that answers every request with one fixed status, on both
\* sides of the bounds of the 2xx range.
FixedStatus == [s299 |-> 299, s300 |-> 300, s304 |-> 304, s404 |-> 404, s503 |-> 503]

StatusURLs == DOMAIN FixedStatus

\* http.NewRequestWithContext fails on a URL that does not parse.
Malformed(url) == url = "bad"

\* What the server behind url answers to the attempt-th request of a probe:
\* err is the transport error ("" for none), status the response's code.
ServerResponse(url, attempt) ==
    CASE url = "ok"      -> [err |-> "", status |-> 200]
      [] url = "s500"    -> [err |-> "", status |-> 500]
      [] url = "refused" -> [err |-> "refused", status |-> 0]
      [] url = "flaky1"  -> IF attempt = 1 THEN [err |-> "", status |-> 503]
                                           ELSE [err |-> "", status |-> 200]
      [] url = "flaky2"  -> IF attempt = 1 THEN [err |-> "refused", status |-> 0]
                            ELSE IF attempt = 2 THEN [err |-> "", status |-> 404]
                            ELSE [err |-> "", status |-> 204]
      [] url \in StatusURLs -> [err |-> "", status |-> FixedStatus[url]]
      [] OTHER           -> [err |-> "refused", status |-> 0]

\* client.Do(req): a request whose context is cancelled returns the context's
\* error, whether the cancellation came before or while it was in flight.
ClientDo(url, attempt, ctxDone) ==
    IF ctxDone THEN [err |-> "canceled", status |-> 0]
               ELSE ServerResponse(url, attempt)

\* a status test that takes 200 alone for a success
StatusOK_Only200(status) == status = 200

\* a status test without its upper bound
StatusOK_NoUpper(status) == status >= 200

\* resp.StatusCode >= 200 && resp.StatusCode < 300
StatusOK(status) == status >= 200 /\ status < 300

\* the class of one attempt's outcome, as the probe's branches distinguish it
Outcome(resp) ==
    IF resp.err = "canceled" THEN "ctxerr"
    ELSE IF resp.err # "" THEN "err"
    ELSE IF StatusOK(resp.status) THEN "2xx"
    ELSE "non2xx"

Min(a, b) == IF a < b THEN a ELSE b

RECURSIVE Repeat(_, _)
Repeat(x, n) == IF n = 0 THEN <<>> ELSE <<x>> \o Repeat(x, n - 1)

SeqsUpTo(S, n) == UNION {[1..k -> S] : k \in 0..n}

\* the capacity of a []string that extractLinks grew from []string{} by n
\* appends of one element: the runtime doubles it (0, 1, 2, 4, 8, 16, ...)
RECURSIVE GrowTo(_, _)
GrowTo(cap, n) == IF n <= cap THEN cap ELSE GrowTo(IF cap = 0 THEN 1 ELSE 2 * cap, n)

GoCap(n) == GrowTo(0, n)

\* a LinkAnalysis as extractLinks hands it over: the two slices, and `spare`,
\* the cells of InternalLinks' backing array beyond its length (zero values)
LinkAnalysis(internal, external) ==
    [InternalLinks |-> internal, ExternalLinks |-> external,
     spare |-> Repeat("", GoCap(Len(internal)) - Len(internal))]

\* the LinkSets a run is started on
LinkSets ==
    {LinkAnalysis(SubSeq(s, 1, k), SubSeq(s, k + 1, Len(s))) :
        <<s, k>> \in {<<s, k>> \in SeqsUpTo(URLs, MaxLinks) \X (0..MaxLinks) : k <= Len(s)}}

\* the LinkSets of the runs that probe the bounds of the 2xx range
ProbeLinkSets ==
    {LinkAnalysis(SubSeq(s, 1, k), SubSeq(s, k + 1, Len(s))) :
        <<s, k>> \in {<<s, k>> \in SeqsUpTo(URLs \cup StatusURLs, MaxProbeLinks)
                                    \X (0..MaxProbeLinks) : k <= Len(s)}}

PoolLinkSets ==
    {LinkAnalysis(Repeat("ok", n - 1), <<"ok">>) :
        n \in (numWorkers - 1)..MaxPoolLinks}

\* ------------------------------------------------------------------ strings
\* A Go string is a sequence of tokens (words, separators, single characters);
\* the functions of package strings work on it token by token.

\* strings.ToLower on one token: the tokens with upper-case letters
LowerTok(t) ==
    CASE t = "X" -> "x"
      [] t = "HTML" -> "html"
      [] t = "-//W3C//DTD" -> "-//w3c//dtd"
      [] t = "-//IETF//DTD" -> "-//ietf//dtd"
      [] t = "Transitional" -> "transitional"
      [] t = "//EN" -> "//en"
      [] t = "Log" -> "log"
      [] t = "In" -> "in"
      [] t = "Sign" -> "sign"
      [] t = "USER" -> "user"
      [] t = "Email" -> "email"
      [] t = "Go" -> "go"
      [] t = "Enter" -> "enter"
      [] OTHER -> t

ToLower(s) == [k \in 1..Len(s) |-> LowerTok(s[k])]

\* strings.Contains
Contains(s, substr) ==
    \E k \in 0..(Len(s) - Len(substr)) : SubSeq(s, k + 1, k + Len(substr)) = substr

\* strings.HasPrefix
HasPrefix(s, prefix) ==
    Len(prefix) <= Len(s) /\ SubSeq(s, 1, Len(prefix)) = prefix

\* strings.TrimSpace: leading and trailing white space removed
RECURSIVE TrimLeft(_)
TrimLeft(s) == IF s # <<>> /\ Head(s) = " " THEN TrimLeft(Tail(s)) ELSE s

RECURSIVE TrimRight(_)
TrimRight(s) ==
    IF s # <<>> /\ s[Len(s)] = " " THEN TrimRight(SubSeq(s, 1, Len(s) - 1)) ELSE s

TrimSpace(s) == TrimRight(TrimLeft(s))

\* ---------------------------------------------------------------- documents
\* What html.Parse makes of a page, as far as the analyses look at it:
\*   prolog    the children of the document node before the <html> element
\*             (comments and at most one doctype)
\*   headings  the tags of the h1..h6 elements, in document order
\*   anchors   the <a> elements, in document order
\*   forms     the <form> elements, each the sequence of its input and button
\*             elements
\*   loose     the input and button elements outside every form
DoctypeNode(data, attr) == [Type |-> "doctype", Data |-> data, Attr |-> attr]
CommentNode == [Type |-> "comment", Data |-> "", Attr |-> <<>>]
HtmlElement == [Type |-> "element", Data |-> "html", Attr |-> <<>>]

\* public identifiers of doctypes (the first four are those of TestFindHTMLVersion
\* and a lower-case spelling)
PublicIds ==
    { <<"-//W3C//DTD", " ", "X", "HTML", " ", "1.0", " ", "Transitional", "//EN">>,
      <<"-//W3C//DTD", " ", "HTML", " ", "4.01", "//EN">>,
      <<"-//IETF//DTD", " ", "HTML", " ", "2.0", "//EN">>,
      <<"-//w3c//dtd", " ", "x", "html", " ", "1.0", "//en">>,
      <<"HTML", " ", "4.01", " ", "X", "HTML", " ", "1.0">>,
      <<"-//W3C//DTD", " ", "X", "HTML", " ", "1.1", "//EN">>,
      <<>> }

SystemAttr == [Key |-> "system", Val |-> <<"about:legacy-compat">>]
PublicAttr(id) == [Key |-> "public", Val |-> id]

\* the attribute lists parseDoctype builds: public before system
DoctypeAttrs ==
    {<<>>, <<SystemAttr>>}
       \cup {<<PublicAttr(id)>> : id \in PublicIds}
       \cup {<<PublicAttr(id), SystemAttr>> : id \in PublicIds}

Doctypes == {DoctypeNode(data, attr) : data \in {"html", "math"}, attr \in DoctypeAttrs}

IsDoctype(n) == n.Type = "doctype"

\* the prologs the parser can build: comments around at most one doctype
Prologs ==
    {p \in SeqsUpTo(Doctypes \cup {CommentNode}, MaxProlog) :
        Cardinality({k \in 1..Len(p) : IsDoctype(p[k])}) <= 1}

\* ----------------------------------------------------------- findHTMLVersion
\* parsers.go:36-50: the version the first public attribute stands for, ""
\* when the doctype has no public attribute
RECURSIVE PublicVersion(_)
PublicVersion(attr) ==
    IF attr = <<>> THEN ""
    ELSE IF Head(attr).Key = "public"
         THEN LET val == ToLower(Head(attr).Val)
              IN  IF Contains(val, <<"x", "html", " ", "1.0">>) THEN "XHTML 1.0"
                  ELSE IF Contains(val, <<"html", " ", "4.01">>) THEN "HTML 4.01"
                  ELSE "Unknown (Pre-HTML5)"
         ELSE PublicVersion(Tail(attr))

\* parsers.go:15-63: doc.Each visits the document node; only its first child is
\* looked at
findHTMLVersion(doc) ==
    LET FirstChild == (doc.prolog \o <<HtmlElement>>)[1]
        version == IF IsDoctype(FirstChild)
                      THEN IF FirstChild.Data = "html" /\ Len(FirstChild.Attr) = 0
                              THEN "HTML5"
                              ELSE PublicVersion(FirstChild.Attr)
                      ELSE ""
    IN  [val |-> IF version = "" THEN "Unknown or No Doctype" ELSE version,
         err |-> "nil"]

\* ------------------------------------------------------------- countHeadings
headingLevels == <<"h1", "h2", "h3", "h4", "h5", "h6">>

\* parsers.go:65-91: the map holds the levels that occur, with their counts
countHeadings(doc) ==
    LET count(tag) == Cardinality({k \in 1..Len(doc.headings) : doc.headings[k] = tag})
        present == {headingLevels[k] : k \in {j \in 1..Len(headingLevels) :
                                                  count(headingLevels[j]) > 0}}
    IN  [val |-> [tag \in present |-> count(tag)], err |-> "nil"]

\* ---------------------------------------------------------------------- URLs
\* the position of the first token t in s, 0 when there is none
IndexOf(s, t) ==
    IF \E k \in 1..Len(s) : s[k] = t
       THEN CHOOSE k \in 1..Len(s) : s[k] = t /\ \A j \in 1..(k - 1) : s[j] # t
       ELSE 0

LastIndexOf(s, t) ==
    IF \E k \in 1..Len(s) : s[k] = t
       THEN CHOOSE k \in 1..Len(s) : s[k] = t /\ \A j \in (k + 1)..Len(s) : s[j] # t
       ELSE 0

Schemes == {"https:", "http:", "mailto:", "tel:", "javascript:"}

NoURL == [Scheme |-> "", Opaque |-> <<>>, Host |-> <<>>, Path |-> <<>>, Fragment |-> <<>>]

\* url.Parse: cut the fragment, read the scheme, then an opaque rest, or an
\* authority after "//" and a path. It fails on a missing scheme before ":",
\* on a space in the host and on a malformed percent-escape in the path.
ParseURL(rawURL) ==
    LET hash == IndexOf(rawURL, "#")
        frag == IF hash = 0 THEN <<>> ELSE SubSeq(rawURL, hash + 1, Len(rawURL))
        u == IF hash = 0 THEN rawURL ELSE SubSeq(rawURL, 1, hash - 1)
        hasScheme == u # <<>> /\ Head(u) \in Schemes
        scheme == IF hasScheme THEN Head(u) ELSE ""
        rest == IF hasScheme THEN Tail(u) ELSE u
        rooted == rest # <<>> /\ Head(rest) \in {"/", "//"}
        hasAuthority == HasPrefix(rest, <<"//">>)
        afterSlashes == IF hasAuthority THEN Tail(rest) ELSE rest
        slash == IndexOf(afterSlashes, "/")
        authority == IF ~hasAuthority THEN <<>>
                     ELSE IF slash = 0 THEN afterSlashes
                     ELSE SubSeq(afterSlashes, 1, slash - 1)
        path == IF ~hasAuthority THEN rest
                ELSE IF slash = 0 THEN <<>>
                ELSE SubSeq(afterSlashes, slash, Len(afterSlashes))
    IN  IF u # <<>> /\ Head(u) = ":"
           THEN [err |-> "missing protocol scheme", url |-> NoURL]
        ELSE IF hasScheme /\ ~rooted
           THEN [err |-> "nil",
                 url |-> [NoURL EXCEPT !.Scheme = scheme, !.Opaque = rest,
                                       !.Fragment = frag]]
        ELSE IF IndexOf(authority, " ") # 0
           THEN [err |-> "invalid character in host name", url |-> NoURL]
        ELSE IF IndexOf(path, "%zz") # 0
           THEN [err |-> "invalid URL escape", url |-> NoURL]
        ELSE [err |-> "nil",
              url |-> [Scheme |-> scheme, Opaque |-> <<>>, Host |-> authority,
                       Path |-> path, Fragment |-> frag]]

\* resolvePath: a relative path replaces what follows the base's last "/"
ResolvePath(base, ref) ==
    LET full == IF ref = <<>> THEN base
                ELSE IF Head(ref) # "/"
                     THEN SubSeq(base, 1, LastIndexOf(base, "/")) \o ref
                     ELSE ref
    IN  IF full = <<>> THEN <<>>
        ELSE IF Head(full) = "/" THEN full
        ELSE <<"/">> \o full

\* (*URL).ResolveReference
ResolveReference(u, ref) ==
    LET url == [ref EXCEPT !.Scheme = IF ref.Scheme = "" THEN u.Scheme ELSE ref.Scheme]
    IN  IF ref.Scheme # "" \/ ref.Host # <<>>
           THEN [url EXCEPT !.Path = ResolvePath(ref.Path, <<>>)]
        ELSE IF ref.Opaque # <<>>
           THEN [url EXCEPT !.Host = <<>>, !.Path = <<>>]
        ELSE [url EXCEPT !.Host = u.Host,
                         !.Path = ResolvePath(u.Path, ref.Path),
                         !.Fragment = IF ref.Path = <<>> /\ ref.Fragment = <<>>
                                         THEN u.Fragment ELSE ref.Fragment]

\* (*URL).String
URLString(u) ==
    (IF u.Scheme # "" THEN <<u.Scheme>> ELSE <<>>)
    \o (IF u.Opaque # <<>> THEN u.Opaque
        ELSE (IF (u.Scheme # "" \/ u.Host # <<>>) /\ (u.Host # <<>> \/ u.Path # <<>>)
                 THEN <<"//">> \o u.Host ELSE <<>>)
             \o u.Path)
    \o (IF u.Fragment # <<>> THEN <<"#">> \o u.Fragment ELSE <<>>)

\* -------------------------------------------------------------- extractLinks
\* an <a> element: whether it has an href attribute, and the attribute's value
Anchor(href) == [hasHref |-> TRUE, href |-> href]
BareAnchor == [hasHref |-> FALSE, href |-> <<>>]

\* the href values of the pages analysed (those of TestExtractLinks among them)
Hrefs ==
    { <<>>,
      <<" ", " ">>,
      <<"#", "top">>,
      <<" ", "#", "top">>,
      <<"mailto:", "test@example.com">>,
      <<"tel:", "+123456789">>,
      <<"/", "about">>,
      <<" ", "/", "about", " ">>,
      <<"/", "about", "#", "team">>,
      <<"contact.html">>,
      <<"https:", "//", "google.com">>,
      <<"//", "google.com", "/", "x">>,
      <<"https:", "//", "sub.example.com", "/", "page">>,
      <<"https:", "//", "example.com", "/", "another-page">>,
      <<"javascript:", "void(0)">>,
      <<"http:", "//", "a", " ", "b.com", "/">>,
      <<"/", "%zz">> }

Anchors == {BareAnchor} \cup {Anchor(h) : h \in Hrefs}

\* a skip test that lets fragment links through
Irrelevant_NoFragment(href) ==
    \/ href = <<>>
    \/ HasPrefix(href, <<"mailto:">>)
    \/ HasPrefix(href, <<"tel:">>)

\* parsers.go:108: the trimmed hrefs that are skipped
Irrelevant(href) ==
    \/ href = <<>>
    \/ HasPrefix(href, <<"#">>)
    \/ HasPrefix(href, <<"mailto:">>)
    \/ HasPrefix(href, <<"tel:">>)

\* an errors.Join that loses the errors
JoinErrors_Nil(errs) == "nil"

\* parsers.go:137-141: errors.Join(errs...) when there are any, nil otherwise
JoinErrors(errs) == IF Len(errs) > 0 THEN "joined" ELSE "nil"

\* parsers.go:104-129: the callback of doc.Find("a[href]").Each on one anchor;
\* acc holds result.InternalLinks, result.ExternalLinks and errs
VisitAnchor(acc, a, baseURL) ==
    LET href == TrimSpace(a.href)
        parsed == ParseURL(href)
        absoluteLink == ResolveReference(baseURL, parsed.url)
    IN  IF ~a.hasHref \/ Irrelevant(href) THEN acc
        ELSE IF parsed.err # "nil"
           THEN [acc EXCEPT !.errs = Append(@, parsed.err)]
        ELSE IF absoluteLink.Host = baseURL.Host
           THEN [acc EXCEPT !.InternalLinks = Append(@, URLString(absoluteLink))]
           ELSE [acc EXCEPT !.ExternalLinks = Append(@, URLString(absoluteLink))]

RECURSIVE VisitAnchors(_, _, _)
VisitAnchors(acc, anchors, baseURL) ==
    IF anchors = <<>> THEN acc
    ELSE VisitAnchors(VisitAnchor(acc, Head(anchors), baseURL), Tail(anchors), baseURL)

\* parsers.go:93-142
extractLinks(doc, baseURL) ==
    LET acc == VisitAnchors([InternalLinks |-> <<>>, ExternalLinks |-> <<>>,
                             errs |-> <<>>], doc.anchors, baseURL)
    IN  [val |-> [InternalLinks |-> acc.InternalLinks,
                  ExternalLinks |-> acc.ExternalLinks],
         err |-> JoinErrors(acc.errs)]

\* ----------------------------------------------------------- detectLoginForm
\* an <input> or <button> element with the attributes the detection reads
Control(tag, type, name, id, placeholder, text, value) ==
    [Tag |-> tag, Type |-> type, Name |-> name, Id |-> id,
     Placeholder |-> placeholder, Text |-> text, Value |-> value]

Input(type, name, id, placeholder) ==
    Control("input", type, name, id, placeholder, <<>>, <<>>)

\* the controls of the pages analysed (those of TestDetectLoginForm among them)
Controls ==
    { Input("password", <<"pass", "word">>, <<>>, <<>>),
      Input("email", <<"e", "-", "mail">>, <<>>, <<>>),
      Input("text", <<"USER">>, <<>>, <<>>),
      Input("text", <<>>, <<"log", "in", "_", "id">>, <<>>),
      Control("input", "submit", <<>>, <<>>, <<>>, <<>>, <<"Sign", " ", "In">>),
      Control("button", "submit", <<>>, <<>>, <<>>, <<"Go">>, <<>>) }

Forms == SeqsUpTo(Controls, MaxControls)

\* Find("input[type='password']") within a sequence of elements
HasPasswordInput(elems) ==
    \E k \in 1..Len(elems) : elems[k].Tag = "input" /\ elems[k].Type = "password"

\* a form test that does not ask for a password field
FormQualifies_NoPassword(form) == TRUE

\* parsers.go:153: criterion 1, the form holds a password field
FormQualifies(form) == HasPasswordInput(form)

\* parsers.go:160-172: criterion 2 on one input
IsUserIdentifier(c) ==
    LET nameAttr == ToLower(c.Name)
        idAttr == ToLower(c.Id)
        placeholderAttr == ToLower(c.Placeholder)
    IN  /\ c.Tag = "input"
        /\ \/ c.Type = "email"
           \/ Contains(nameAttr, <<"user">>) \/ Contains(idAttr, <<"user">>)
           \/ Contains(placeholderAttr, <<"user">>)
           \/ Contains(nameAttr, <<"email">>) \/ Contains(idAttr, <<"email">>)
           \/ Contains(placeholderAttr, <<"email">>)

\* parsers.go:176-181: criterion 3 on one button or submit input
IsLoginButton(c) ==
    LET btnText == ToLower(c.Text \o c.Value)
    IN  /\ c.Tag = "button" \/ (c.Tag = "input" /\ c.Type = "submit")
        /\ \/ Contains(btnText, <<"log", " ", "in">>)
           \/ Contains(btnText, <<"sign", " ", "in">>)

\* parsers.go:148-195: the callback of EachWithBreak on one form
IsLoginFormElement(form) ==
    /\ FormQualifies(form)
    /\ \/ \E k \in 1..Len(form) : IsUserIdentifier(form[k])
       \/ \E k \in 1..Len(form) : IsLoginButton(form[k])

\* parsers.go:148-195: EachWithBreak stops at the first form that is one
RECURSIVE AnyLoginForm(_)
AnyLoginForm(forms) ==
    IF forms = <<>> THEN FALSE
    ELSE IF IsLoginFormElement(Head(forms)) THEN TRUE
    ELSE AnyLoginForm(Tail(forms))

\* all input and button elements of the document
RECURSIVE Flatten(_)
Flatten(seqs) == IF seqs = <<>> THEN <<>> ELSE Head(seqs) \o Flatten(Tail(seqs))

AllControls(doc) == Flatten(doc.forms) \o doc.loose

\* parsers.go:198-214: the fallback; the attribute selectors *= compare the
\* attribute's value as written
Fallback(doc) ==
    LET elems == AllControls(doc)
        hasPasswordInput == HasPasswordInput(elems)
        hasEmailInput == \E k \in 1..Len(elems) :
                            elems[k].Tag = "input" /\ elems[k].Type = "email"
        hasTextInput == \E k \in 1..Len(elems) :
                           /\ elems[k].Tag = "input"
                           /\ \/ Contains(elems[k].Id, <<"user">>)
                              \/ Contains(elems[k].Id, <<"log", "in">>)
                              \/ Contains(elems[k].Name, <<"user">>)
                              \/ Contains(elems[k].Name, <<"log", "in">>)
    IN  hasPasswordInput /\ (hasEmailInput \/ hasTextInput)

\* parsers.go:144-218
detectLoginForm(doc) ==
    LET isLoginForm == AnyLoginForm(doc.forms)
    IN  [val |-> IF ~isLoginForm THEN Fallback(doc) ELSE TRUE, err |-> "nil"]

\* --------------------------------------------------------------------- pages
Document(prolog, headings, anchors, forms, loose) ==
    [prolog |-> prolog, title |-> <<"Example">>, headings |-> headings,
     anchors |-> anchors, forms |-> forms, loose |-> loose]

\* what html.Parse makes of an empty body
EmptyDoc == Document(<<>>, <<>>, <<>>, <<>>, <<>>)

\* the documents that vary the links of the page
LinkDocs ==
    {Document(<<>>, <<>>, a, <<>>, <<>>) : a \in SeqsUpTo(Anchors, MaxAnchors)}

\* the documents analysed: each varies what one analysis looks at
Docs ==
    {Document(p, <<>>, <<>>, <<>>, <<>>) : p \in Prologs}
       \cup {Document(<<>>, h, <<>>, <<>>, <<>>) :
                h \in {<<"h1", "h3", "h3">>, <<"h2", "h1", "h6", "h2">>}}
       \cup LinkDocs
       \cup {Document(<<>>, <<>>, <<>>, f, l) :
                f \in SeqsUpTo(Forms, MaxForms), l \in SeqsUpTo(Controls, MaxLoose)}

\* the page of TestExtractLinks, https://example.com/path/
ExamplePage == <<"https:", "//", "example.com", "/", "path", "/">>

\* pages whose server fails: twice before a 204, with 404 always, by refusing
\* the connection, and one whose URL does not parse
FlakyPage == <<"https:", "//", "flaky.example", "/">>
DeniedPage == <<"https:", "//", "denied.example", "/">>
DownPage == <<"https:", "//", "down.example", "/">>
BadPage == <<"http:", "//", "a", " ", "b.com", "/">>

\* The server behind an absolute URL, by the name the validator knows its
\* behaviour under (see ServerResponse); a URL not listed refuses connections.
Behind(link) ==
    CASE link = ExamplePage -> "ok"
      [] link = <<"https:", "//", "example.com", "/", "about">> -> "ok"
      [] link = <<"https:", "//", "example.com", "/", "another-page">> -> "ok"
      [] link = <<"https:", "//", "example.com", "/", "path", "/", "contact.html">> -> "flaky1"
      [] link = <<"https:", "//", "google.com">> -> "s500"
      [] link = <<"https:", "//", "google.com", "/", "x">> -> "s404"
      [] link = FlakyPage -> "flaky2"
      [] link = DeniedPage -> "s404"
      [] OTHER -> "refused"

Served(links) == [k \in 1..Len(links) |-> Behind(links[k])]

\* http.Get(pageURL) at the attempt-th call: the URL is parsed first
HttpGet(pageURL, attempt) ==
    IF ParseURL(pageURL).err # "nil" THEN [err |-> "parse", status |-> 0]
                                     ELSE ServerResponse(Behind(pageURL), attempt)

\* ---------------------------------------------------------------- loadWebPage
\* what http.Get returned, as Go has it: the response (<<>> for nil, <<status>>
\* otherwise) and the error ("nil" when the transport reported none)
GetData(resp) == IF resp.err = "" THEN <<resp.status>> ELSE <<>>
GetError(resp) == IF resp.err = "" THEN "nil" ELSE resp.err

\* a loadWebPage that returns the last attempt's error as it stands
GiveUp_LastError(data, err) == err

\* part_000:94-111, after the loop: the error returned with the nil response,
\* data and err being what the last attempt got; a response without an error
\* becomes "access denied"
GiveUp(data, err) ==
    IF data # <<>> /\ err = "nil" THEN "access denied to the page" ELSE err

\* part_000:52-92, iteration i of the loop (and what follows the loop when it
\* is the last) once http.Get has returned resp; sleeps counts the backoff
\* sleeps
RECURSIVE FetchFrom(_, _, _)
Attempt(pageURL, i, sleeps, resp) ==
    IF GetError(resp) = "nil" /\ resp.status >= 200 /\ resp.status < 300
       THEN [data |-> GetData(resp), err |-> "nil", attempts |-> i + 1,
             sleeps |-> sleeps]
    ELSE IF i < maxRetries - 1
       THEN FetchFrom(pageURL, i + 1, sleeps + 1)
       ELSE [data |-> <<>>, err |-> GiveUp(GetData(resp), GetError(resp)),
             attempts |-> i + 1, sleeps |-> sleeps]

\* part_000:52-56: iteration i issues the (i+1)-th http.Get
FetchFrom(pageURL, i, sleeps) == Attempt(pageURL, i, sleeps, HttpGet(pageURL, i + 1))

\* part_000:44-112
loadWebPage(pageURL) == FetchFrom(pageURL, 0, 0)

\* ---------------------------------------------------------------- AnalyzePage
\* The activation of AnalyzePage: its argument, what the server at pageURL
\* serves (body; bodyErr when reading it fails), and its locals: load is what
\* loadWebPage returned, facets what the four analyses returned, ret the
\* (result, err) pair returned; each is <<>> until it is set.
NoCall ==
    [pc |-> "none", pageURL |-> <<>>, body |-> EmptyDoc, bodyErr |-> FALSE,
     load |-> <<>>, facets |-> <<>>, ret |-> <<>>]

Call(pageURL, body, bodyErr) ==
    [NoCall EXCEPT !.pc = "called", !.pageURL = pageURL, !.body = body,
                   !.bodyErr = bodyErr]

PageCalls ==
    {Call(ExamplePage, d, FALSE) : d \in Docs}
       \cup {Call(u, EmptyDoc, FALSE) : u \in {FlakyPage, DeniedPage, DownPage, BadPage}}
       \cup {Call(ExamplePage, EmptyDoc, TRUE)}

\* `return nil, err`
Failed(a, load, err) ==
    [a EXCEPT !.pc = "returned", !.load = <<load>>,
              !.ret = <<[result |-> <<>>, err |-> err]>>]

\* Makefile:48-67: the four analyses, each returning (value, error)
Facets(doc, baseURL) ==
    [version |-> findHTMLVersion(doc), headings |-> countHeadings(doc),
     links |-> extractLinks(doc, baseURL), login |-> detectLoginForm(doc)]

\* an AnalyzePage that gives up when the link extraction reports an error
AnalyzeBegin_Strict(a) ==
    LET load == loadWebPage(a.pageURL)
        baseURL == ParseURL(a.pageURL)
        f == Facets(a.body, baseURL.url)
    IN  IF load.err # "nil" THEN Failed(a, load, load.err)
        ELSE IF a.bodyErr THEN Failed(a, load, "failed to parse document")
        ELSE IF baseURL.err # "nil" THEN Failed(a, load, "could not parse base URL")
        ELSE IF f.links.err # "nil" THEN Failed(a, load, f.links.err)
        ELSE [a EXCEPT !.pc = "validating", !.load = <<load>>, !.facets = <<f>>]

\* an AnalyzePage that goes on when the page could not be loaded
AnalyzeBegin_IgnoreLoad(a) ==
    LET load == loadWebPage(a.pageURL)
        baseURL == ParseURL(a.pageURL)
        f == Facets(a.body, baseURL.url)
    IN  IF a.bodyErr THEN Failed(a, load, "failed to parse document")
        ELSE IF baseURL.err # "nil" THEN Failed(a, load, "could not parse base URL")
        ELSE [a EXCEPT !.pc = "validating", !.load = <<load>>, !.facets = <<f>>]

\* Makefile:22-70, AnalyzePage up to its call of validateLinkAccessibility:
\* a failed load, an unreadable body or an unparsable page URL end it with
\* (nil, err); the error each analysis returns is assigned to _
AnalyzeBegin(a) ==
    LET load == loadWebPage(a.pageURL)
        baseURL == ParseURL(a.pageURL)
        f == Facets(a.body, baseURL.url)
    IN  IF load.err # "nil" THEN Failed(a, load, load.err)
        ELSE IF a.bodyErr THEN Failed(a, load, "failed to parse document")
        ELSE IF baseURL.err # "nil" THEN Failed(a, load, "could not parse base URL")
        ELSE [a EXCEPT !.pc = "validating", !.load = <<load>>, !.facets = <<f>>]

\* a report that counts every link it found as inaccessible
Result_CountAll(a, failedLinks) ==
    LET f == a.facets[1]
    IN  [HTMLVersion |-> f.version.val,
         Title |-> a.body.title,
         Headings |-> f.headings.val,
         Links |-> [InternalCount |-> Len(f.links.val.InternalLinks),
                    ExternalCount |-> Len(f.links.val.ExternalLinks),
                    InaccessibleCount |-> Len(f.links.val.InternalLinks)
                                             + Len(f.links.val.ExternalLinks)],
         ContainsLoginForm |-> f.login.val]

\* Makefile:40-71: the AnalysisResult, failedLinks being what the validator
\* returned
Result(a, failedLinks) ==
    LET f == a.facets[1]
    IN  [HTMLVersion |-> f.version.val,
         Title |-> a.body.title,
         Headings |-> f.headings.val,
         Links |-> [InternalCount |-> Len(f.links.val.InternalLinks),
                    ExternalCount |-> Len(f.links.val.ExternalLinks),
                    InaccessibleCount |-> Len(failedLinks)],
         ContainsLoginForm |-> f.login.val]

\* -------------------------------------------------------------- handleRequest
\* main.go:27-31, TemplateData{}: Error is "" and Results is <<>> (nil) until
\* they are set
TemplateData == [URL |-> <<>>, Error |-> "", Results |-> <<>>]

\* main.go:62
ErrorText ==
    "Failed to analyze the page. The URL might be unreachable or the content invalid."

\* r.Method
Methods == {"GET", "POST", "PUT", "HEAD", "DELETE"}

\* r.FormValue("url"): a page of PageCalls, or nothing
FormURLs == {ExamplePage, FlakyPage, DeniedPage, DownPage, BadPage, <<>>}

\* The activation of handleRequest: the request's method and form value, the
\* handler's TemplateData, the status written to w (0 while none is), whether
\* tmpl.Execute was called, and the number of calls of AnalyzePage.
NoRequest ==
    [pc |-> "none", method |-> "", url |-> <<>>, data |-> TemplateData,
     status |-> 0, executed |-> FALSE, analyses |-> 0]

Request(method, url) ==
    [NoRequest EXCEPT !.pc = "received", !.method = method, !.url = url]

Requests == {Request(m, u) : m \in Methods, u \in FormURLs}

\* what the server at the form's URL can serve when AnalyzePage is called
RequestCalls ==
    {Call(ExamplePage, d, FALSE) : d \in LinkDocs}
       \cup {Call(u, EmptyDoc, FALSE) : u \in FormURLs \ {ExamplePage}}
       \cup {Call(ExamplePage, EmptyDoc, TRUE)}

\* a handler that lets every method through
Allowed_Any(method) == TRUE

\* main.go:47, the negation of its test
Allowed(method) == method = "GET" \/ method = "POST"

\* a handler that reports the failure text whatever AnalyzePage returned
WithOutcome_AlwaysError(data, ret) ==
    [data EXCEPT !.Error = ErrorText, !.Results = ret.result]

\* main.go:60-66: Error or Results, by the error AnalyzePage returned
WithOutcome(data, ret) ==
    IF ret.err # "nil" THEN [data EXCEPT !.Error = ErrorText]
                       ELSE [data EXCEPT !.Results = ret.result]

\* main.go:68-72: tmpl.Execute(w, data); when it fails serverError answers 500
Execute(r, ok) ==
    [r EXCEPT !.executed = TRUE, !.status = IF ok THEN 200 ELSE 500, !.pc = "done"]

\* -------------------------------------------------------------------- state
VARIABLES
    analysis,           \* the caller's LinkAnalysis
    ctxCancellable,     \* the context can be cancelled (not context.Background())
    cancelled,          \* ctx.Done() is closed
    pc,                 \* where validateLinkAccessibility is
    pageLinks,          \* append(InternalLinks, ExternalLinks...)
    totalLinks,         \* len(pageLinks)
    w,                  \* the spawn loop's counter
    next,               \* index of the next link to enqueue
    jobs,               \* the jobs channel's buffer
    jobsClosed,
    inaccessibleLinks,  \* the inaccessibleLinks channel's buffer
    inaccessibleClosed,
    wg,                 \* the WaitGroup's counter
    workers,            \* bag of the pool goroutines' local states
    closer,             \* the goroutine of lines 205-208
    failedLinks,        \* the slice the drain loop builds
    returned,           \* <<>>, then the one (failedLinks, err) pair returned
    panicked,           \* a goroutine panicked (send on a closed channel)
    probeLog,           \* history: bag of the probes that have returned
    ap,                 \* the activation of AnalyzePage that called the validator
    req                 \* the activation of handleRequest that called AnalyzePage

vars == <<analysis, ctxCancellable, cancelled, pc, pageLinks, totalLinks, w, next,
          jobs, jobsClosed, inaccessibleLinks, inaccessibleClosed, wg, workers,
          closer, failedLinks, returned, panicked, probeLog, ap, req>>

\* a pool goroutine blocked in `for url := range jobs`
\* (url, i, backoff are the probe's locals; the other fields are history:
\* attempts = loop iterations begun, hist = the attempts' outcomes, sleeps =
\* backoff sleeps taken, claimedDone / startedDone = the context was already
\* cancelled when the URL was claimed / the current attempt started, obs = the
\* stage the probe was in when the cancellation reached it)
Idle == [pc |-> "recv", url |-> "", i |-> 0, backoff |-> 0, attempts |-> 0,
         hist |-> <<>>, sleeps |-> 0, claimedDone |-> FALSE, startedDone |-> FALSE,
         obs |-> "none"]

\* a pool goroutine that has returned (its deferred wg.Done() has run)
Exited == [Idle EXCEPT !.pc = "exited"]

One(r) == SetToBag({r})

Replace(bag, old, new) == (bag (-) One(old)) (+) One(new)

\* the validator's locals before its first step
Fresh ==
    /\ cancelled = FALSE
    /\ pageLinks = <<>>
    /\ totalLinks = 0
    /\ w = 0
    /\ next = 0
    /\ jobs = <<>>
    /\ jobsClosed = FALSE
    /\ inaccessibleLinks = <<>>
    /\ inaccessibleClosed = FALSE
    /\ wg = 0
    /\ workers = EmptyBag
    /\ closer = "none"
    /\ failedLinks = <<>>
    /\ returned = <<>>
    /\ panicked = FALSE
    /\ probeLog = EmptyBag

\* validateLinkAccessibility has been called (by a test, not by AnalyzePage)
\* and has not taken a step yet
Called ==
    /\ pc = "start"
    /\ ap = NoCall
    /\ req = NoRequest
    /\ Fresh

Init ==
    /\ \/ analysis \in LinkSets /\ ctxCancellable \in BOOLEAN
       \/ analysis \in PoolLinkSets /\ ctxCancellable = FALSE
    /\ Called

\* AnalyzePage has been called with context.Background(), as handleRequest
\* calls it, and has not taken a step yet; the handler itself is left out
PageInit ==
    /\ ap \in PageCalls
    /\ req = NoRequest
    /\ pc = "uncalled"
    /\ analysis = LinkAnalysis(<<>>, <<>>)
    /\ ctxCancellable = FALSE
    /\ Fresh

\* the server has called handleRequest, which has not taken a step yet
RequestInit ==
    /\ req \in Requests
    /\ ap = NoCall
    /\ pc = "uncalled"
    /\ analysis = LinkAnalysis(<<>>, <<>>)
    /\ ctxCancellable = FALSE
    /\ Fresh

\* the runs of TestLinkAccessibilityChecker: one link, context.Background()
ProbeInit ==
    /\ analysis \in ProbeLinkSets
    /\ ctxCancellable = FALSE
    /\ Called

\* -------------------------------------------------- validateLinkAccessibility
\* a pool without the cap: one worker per link
SpawnCount_PerLink(n) == n

\* a pool of fixed size, however few the links
SpawnCount_Fixed(n) == numWorkers

\* a channel that buffers a single element
ChanCap_One(n) == 1

\* lines 182-183: make(chan string, totalLinks)
ChanCap(n) == n

\* the number of workers the spawn loops of lines 188-198 start
SpawnCount(n) == IF n < numWorkers THEN n ELSE numWorkers

\* the elements of s without the repetitions of an earlier element
RECURSIVE Unique(_)
Unique(s) ==
    IF s = <<>> THEN <<>>
    ELSE LET front == Unique(SubSeq(s, 1, Len(s) - 1))
             last == s[Len(s)]
         IN  IF \E k \in 1..Len(front) : front[k] = last THEN front
                                                          ELSE Append(front, last)

\* an append that keeps one occurrence of each URL
AppendSlice_Unique(slice, spare, xs) ==
    [slice |-> slice, spare |-> spare, result |-> Unique(slice \o xs)]

\* an append that starts writing one cell too early
AppendSlice_Clobber(slice, spare, xs) ==
    [slice |-> IF Len(slice) > 0 /\ Len(xs) > 0
                  THEN [slice EXCEPT ![Len(slice)] = xs[1]] ELSE slice,
     spare |-> spare,
     result |-> slice \o xs]

\* line 173: append(slice, xs...) where spare are the cells of slice's backing
\* array beyond its length. When xs fits in them it is written there, in the
\* caller's array, otherwise a new array is allocated. result is the slice
\* returned; slice and spare are the caller's array afterwards.
AppendSlice(slice, spare, xs) ==
    [slice |-> slice,
     spare |-> IF Len(xs) <= Len(spare)
                  THEN xs \o SubSeq(spare, Len(xs) + 1, Len(spare))
                  ELSE spare,
     result |-> slice \o xs]

\* line 173: pageLinks := append(analysis.InternalLinks, analysis.ExternalLinks...)
AppendLinks(a) == AppendSlice(a.InternalLinks, a.spare, a.ExternalLinks)

\* the caller's LinkAnalysis after line 173
AfterAppend(a) ==
    [InternalLinks |-> AppendLinks(a).slice, ExternalLinks |-> a.ExternalLinks,
     spare |-> AppendLinks(a).spare]

\* an entry without the early return for an empty LinkSet
Start_NoShortcut ==
    /\ pc = "start"
    /\ pageLinks' = AppendLinks(analysis).result
    /\ analysis' = AfterAppend(analysis)
    /\ pc' = "spawn"
    /\ totalLinks' = Len(pageLinks')
    /\ w' = 1
    /\ UNCHANGED <<ctxCancellable, cancelled, next, jobs, jobsClosed,
                   inaccessibleLinks, inaccessibleClosed, wg, workers, closer,
                   failedLinks, returned, panicked, probeLog, ap, req>>

\* lines 173-185: build pageLinks; return (nil, nil) when it is empty,
\* otherwise make both channels with capacity totalLinks
Start ==
    /\ pc = "start"
    /\ pageLinks' = AppendLinks(analysis).result
    /\ analysis' = AfterAppend(analysis)
    /\ IF Len(pageLinks') = 0
          THEN /\ pc' = "returned"
               /\ returned' = <<[failedLinks |-> <<>>, err |-> "nil"]>>
               /\ UNCHANGED <<totalLinks, w>>
          ELSE /\ pc' = "spawn"
               /\ totalLinks' = Len(pageLinks')
               /\ w' = 1
               /\ UNCHANGED returned
    /\ UNCHANGED <<ctxCancellable, cancelled, next, jobs, jobsClosed,
                   inaccessibleLinks, inaccessibleClosed, wg, workers, closer,
                   failedLinks, panicked, probeLog, ap, req>>

\* lines 188-198: wg.Add(1); go linkAccessibilityCheckWorker(...)
SpawnWorker ==
    /\ pc = "spawn"
    /\ w <= SpawnCount(totalLinks)
    /\ wg' = wg + 1
    /\ workers' = workers (+) One(Idle)
    /\ w' = w + 1
    /\ IF w' <= SpawnCount(totalLinks)
          THEN UNCHANGED <<pc, next>>
          ELSE pc' = "enqueue" /\ next' = 1
    /\ UNCHANGED <<analysis, ctxCancellable, cancelled, pageLinks, totalLinks, jobs,
                   jobsClosed, inaccessibleLinks, inaccessibleClosed, closer,
                   failedLinks, returned, panicked, probeLog, ap, req>>

\* lines 200-202: jobs <- link (blocks while the buffer is full)
Enqueue ==
    /\ pc = "enqueue"
    /\ next <= Len(pageLinks)
    /\ Len(jobs) < ChanCap(totalLinks)
    /\ jobs' = Append(jobs, pageLinks[next])
    /\ next' = next + 1
    /\ pc' = IF next' <= Len(pageLinks) THEN "enqueue" ELSE "closeJobs"
    /\ UNCHANGED <<analysis, ctxCancellable, cancelled, pageLinks, totalLinks, w,
                   jobsClosed, inaccessibleLinks, inaccessibleClosed, wg, workers,
                   closer, failedLinks, returned, panicked, probeLog, ap, req>>

\* a dispatch that forgets to close the work queue
CloseJobs_Forgotten ==
    /\ pc = "closeJobs"
    /\ pc' = "goCloser"
    /\ UNCHANGED <<analysis, ctxCancellable, cancelled, pageLinks, totalLinks, w, next,
                   jobs, jobsClosed, inaccessibleLinks, inaccessibleClosed, wg, workers,
                   closer, failedLinks, returned, panicked, probeLog, ap, req>>

\* line 203: close(jobs)
CloseJobs ==
    /\ pc = "closeJobs"
    /\ jobsClosed' = TRUE
    /\ pc' = "goCloser"
    /\ UNCHANGED <<analysis, ctxCancellable, cancelled, pageLinks, totalLinks, w, next,
                   jobs, inaccessibleLinks, inaccessibleClosed, wg, workers, closer,
                   failedLinks, returned, panicked, probeLog, ap, req>>

\* line 205: go func() { wg.Wait(); close(inaccessibleLinks) }()
GoCloser ==
    /\ pc = "goCloser"
    /\ closer' = "wait"
    /\ pc' = "drain"
    /\ UNCHANGED <<analysis, ctxCancellable, cancelled, pageLinks, totalLinks, w, next,
                   jobs, jobsClosed, inaccessibleLinks, inaccessibleClosed, wg, workers,
                   failedLinks, returned, panicked, probeLog, ap, req>>

\* a Wait that does not wait
WaitReturns_AtOnce(counter) == TRUE

\* line 206: wg.Wait() blocks until the counter is zero
WaitReturns(counter) == counter = 0

\* line 206: wg.Wait() returns
CloserWait ==
    /\ closer = "wait"
    /\ WaitReturns(wg)
    /\ closer' = "close"
    /\ UNCHANGED <<analysis, ctxCancellable, cancelled, pc, pageLinks, totalLinks, w,
                   next, jobs, jobsClosed, inaccessibleLinks, inaccessibleClosed, wg,
                   workers, failedLinks, returned, panicked, probeLog, ap, req>>

\* line 207: close(inaccessibleLinks)
CloserClose ==
    /\ closer = "close"
    /\ inaccessibleClosed' = TRUE
    /\ closer' = "done"
    /\ UNCHANGED <<analysis, ctxCancellable, cancelled, pc, pageLinks, totalLinks, w,
                   next, jobs, jobsClosed, inaccessibleLinks, wg, workers, failedLinks,
                   returned, panicked, probeLog, ap, req>>

\* a drain that drops what it receives
DrainOne_Drop ==
    /\ pc = "drain"
    /\ Len(inaccessibleLinks) > 0
    /\ inaccessibleLinks' = Tail(inaccessibleLinks)
    /\ UNCHANGED <<analysis, ctxCancellable, cancelled, pc, pageLinks, totalLinks, w,
                   next, jobs, jobsClosed, inaccessibleClosed, wg, workers, closer,
                   failedLinks, returned, panicked, probeLog, ap, req>>

\* lines 211-213: one receive of `for link := range inaccessibleLinks`
DrainOne ==
    /\ pc = "drain"
    /\ Len(inaccessibleLinks) > 0
    /\ failedLinks' = Append(failedLinks, Head(inaccessibleLinks))
    /\ inaccessibleLinks' = Tail(inaccessibleLinks)
    /\ UNCHANGED <<analysis, ctxCancellable, cancelled, pc, pageLinks, totalLinks, w,
                   next, jobs, jobsClosed, inaccessibleClosed, wg, workers, closer,
                   returned, panicked, probeLog, ap, req>>

\* a range that ends as soon as the channel is closed
RangeEnds_OnClosed(buffer, closed) == closed

\* a range that ends as soon as the channel is empty
RangeEnds_OnEmpty(buffer, closed) == Len(buffer) = 0

\* line 211: a range over a channel ends once it is closed and empty
RangeEnds(buffer, closed) == Len(buffer) = 0 /\ closed

\* a return that reports the context's error
Return_CtxErr ==
    /\ pc = "drain"
    /\ RangeEnds(inaccessibleLinks, inaccessibleClosed)
    /\ pc' = "returned"
    /\ returned' = <<[failedLinks |-> failedLinks,
                      err |-> IF cancelled THEN "context canceled" ELSE "nil"]>>
    /\ UNCHANGED <<analysis, ctxCancellable, cancelled, pageLinks, totalLinks, w, next,
                   jobs, jobsClosed, inaccessibleLinks, inaccessibleClosed, wg, workers,
                   closer, failedLinks, panicked, probeLog, ap, req>>

\* lines 211-220: the drain loop ends; return (failedLinks, nil)
Return ==
    /\ pc = "drain"
    /\ RangeEnds(inaccessibleLinks, inaccessibleClosed)
    /\ pc' = "returned"
    /\ returned' = <<[failedLinks |-> failedLinks, err |-> "nil"]>>
    /\ UNCHANGED <<analysis, ctxCancellable, cancelled, pageLinks, totalLinks, w, next,
                   jobs, jobsClosed, inaccessibleLinks, inaccessibleClosed, wg, workers,
                   closer, failedLinks, panicked, probeLog, ap, req>>

\* the caller's cancel(): any time before the validator has returned
Cancel ==
    /\ ctxCancellable
    /\ ~cancelled
    /\ pc # "returned"
    /\ cancelled' = TRUE
    /\ UNCHANGED <<analysis, ctxCancellable, pc, pageLinks, totalLinks, w, next, jobs,
                   jobsClosed, inaccessibleLinks, inaccessibleClosed, wg, workers,
                   closer, failedLinks, returned, panicked, probeLog, ap, req>>


\* ---------------------------------------------------- linkAccessibilityChecker
Workers == BagToSet(workers)

\* the entry a returning probe leaves in the history
LogEntry(r, wrote) ==
    [url |-> r.url, attempts |-> r.attempts, hist |-> r.hist, sleeps |-> r.sleeps,
     wrote |-> wrote, claimedDone |-> r.claimedDone, obs |-> r.obs]

\* a loop that runs once too often
LoopContinues_OffByOne(i) == i <= maxRetries

\* line 119: i < maxRetries
LoopContinues(i) == i < maxRetries

\* a backoff that does not grow
NextBackoff_Constant(b) == b

\* lines 137, 156: backoff *= 2
NextBackoff(b) == b * 2

\* a loop head that ignores the request's construction error
StartAttempt_IgnoreError(r, ctxDone) ==
    [r EXCEPT !.pc = "do", !.attempts = @ + 1, !.startedDone = ctxDone]

\* lines 120-128, the head of one loop iteration: build the request; a
\* malformed URL goes to the send of line 124, any other has its request issued
StartAttempt(r, ctxDone) ==
    IF Malformed(r.url)
       THEN [r EXCEPT !.pc = "send", !.attempts = @ + 1]
       ELSE [r EXCEPT !.pc = "do", !.attempts = @ + 1, !.startedDone = ctxDone]

\* lines 115-119: the probe's locals on entry
EnterProbe(url, ctxDone) ==
    [Idle EXCEPT !.url = url, !.backoff = initialBackoff, !.claimedDone = ctxDone]

\* a probe that issues the next request at once after a failure
AfterDo_Eager(r, resp, ctxDone) ==
    IF resp.err = "" /\ StatusOK(resp.status)
       THEN [r EXCEPT !.hist = Append(@, Outcome(resp)), !.pc = "return"]
       ELSE [r EXCEPT !.hist = Append(@, Outcome(resp)), !.i = @ + 1,
                      !.attempts = IF LoopContinues(r.i + 1) THEN @ + 1 ELSE @,
                      !.pc = IF LoopContinues(r.i + 1) THEN "do" ELSE "send"]

\* a probe that retries whatever the answer was
AfterDo_NoReturn(r, resp, ctxDone) ==
    [r EXCEPT !.hist = Append(@, Outcome(resp)), !.pc = "sleep"]

\* the worker's state after client.Do returned resp to it (lines 128-155):
\* return on a 2xx status, otherwise start the backoff sleep
AfterDo(r, resp, ctxDone) ==
    LET o == Outcome(resp)
        seen == IF ctxDone /\ r.obs = "none"
                   THEN (IF r.startedDone THEN "start" ELSE "inflight")
                   ELSE r.obs
    IN  [r EXCEPT !.hist = Append(@, o), !.obs = seen,
                  !.pc = IF resp.err = "" /\ StatusOK(resp.status) THEN "return"
                                                                   ELSE "sleep"]

\* the worker's state once time.Sleep(backoff) has returned (lines 136-138,
\* 155-157, then the loop's i++ and test): the next iteration, or the send of
\* line 160 when the loop ends
AfterSleep(r, ctxDone) ==
    LET seen == IF ctxDone /\ r.obs = "none" THEN "sleep" ELSE r.obs
        r2 == [r EXCEPT !.i = @ + 1, !.backoff = NextBackoff(@), !.sleeps = @ + 1,
                        !.obs = seen]
    IN  IF LoopContinues(r2.i) THEN StartAttempt(r2, ctxDone)
                               ELSE [r2 EXCEPT !.pc = "send"]

\* ------------------------------------------------ linkAccessibilityCheckWorker
\* a receive that leaves the URL on the queue for the next worker
WorkerRecv_Peek ==
    \E r \in Workers :
        /\ r.pc = "recv"
        /\ Len(jobs) > 0
        /\ workers' = Replace(workers, r,
                              StartAttempt(EnterProbe(Head(jobs), cancelled), cancelled))
        /\ UNCHANGED <<analysis, ctxCancellable, cancelled, pc, pageLinks, totalLinks,
                       w, next, jobs, jobsClosed, inaccessibleLinks, inaccessibleClosed,
                       wg, closer, failedLinks, returned, panicked, probeLog, ap, req>>

\* line 165: `for url := range jobs` receives a URL; line 166: the probe is
\* entered and starts its first attempt
WorkerRecv ==
    \E r \in Workers :
        /\ r.pc = "recv"
        /\ Len(jobs) > 0
        /\ jobs' = Tail(jobs)
        /\ workers' = Replace(workers, r,
                              StartAttempt(EnterProbe(Head(jobs), cancelled), cancelled))
        /\ UNCHANGED <<analysis, ctxCancellable, cancelled, pc, pageLinks, totalLinks,
                       w, next, jobsClosed, inaccessibleLinks, inaccessibleClosed, wg,
                       closer, failedLinks, returned, panicked, probeLog, ap, req>>

\* lines 164-168: the range ends on the closed, empty channel; wg.Done()
WorkerExit ==
    \E r \in Workers :
        /\ r.pc = "recv"
        /\ RangeEnds(jobs, jobsClosed)
        /\ workers' = Replace(workers, r, Exited)
        /\ wg' = wg - 1
        /\ UNCHANGED <<analysis, ctxCancellable, cancelled, pc, pageLinks, totalLinks,
                       w, next, jobs, jobsClosed, inaccessibleLinks, inaccessibleClosed,
                       closer, failedLinks, returned, panicked, probeLog, ap, req>>

\* lines 128-155: client.Do returns
WorkerDo ==
    \E r \in Workers :
        /\ r.pc = "do"
        /\ LET r2 == AfterDo(r, ClientDo(r.url, r.i + 1, cancelled), cancelled)
           IN  IF r2.pc = "return"
                  THEN /\ workers' = Replace(workers, r, Idle)
                       /\ probeLog' = probeLog (+) One(LogEntry(r2, FALSE))
                  ELSE /\ workers' = Replace(workers, r, r2)
                       /\ UNCHANGED probeLog
        /\ UNCHANGED <<analysis, ctxCancellable, cancelled, pc, pageLinks, totalLinks,
                       w, next, jobs, jobsClosed, inaccessibleLinks, inaccessibleClosed,
                       wg, closer, failedLinks, returned, panicked, ap, req>>

\* lines 136, 155: time.Sleep(backoff) returns when its timer expires
WorkerWake ==
    \E r \in Workers :
        /\ r.pc = "sleep"
        /\ workers' = Replace(workers, r, AfterSleep(r, cancelled))
        /\ UNCHANGED <<analysis, ctxCancellable, cancelled, pc, pageLinks, totalLinks,
                       w, next, jobs, jobsClosed, inaccessibleLinks, inaccessibleClosed,
                       wg, closer, failedLinks, returned, panicked, probeLog, ap, req>>

\* a probe that writes its URL twice
WorkerSend_Twice ==
    \E r \in Workers :
        /\ r.pc = "send"
        /\ ~inaccessibleClosed
        /\ Len(inaccessibleLinks) < ChanCap(totalLinks)
        /\ inaccessibleLinks' = Append(Append(inaccessibleLinks, r.url), r.url)
        /\ workers' = Replace(workers, r, Idle)
        /\ probeLog' = probeLog (+) One(LogEntry(r, TRUE))
        /\ UNCHANGED <<analysis, ctxCancellable, cancelled, pc, pageLinks, totalLinks,
                       w, next, jobs, jobsClosed, inaccessibleClosed, wg, closer,
                       failedLinks, returned, panicked, ap, req>>

\* lines 124, 160: inaccessibleLinks <- url, then the probe returns; the send
\* blocks while the buffer is full and panics on a closed channel
WorkerSend ==
    \E r \in Workers :
        /\ r.pc = "send"
        /\ IF inaccessibleClosed
              THEN /\ panicked' = TRUE
                   /\ workers' = workers (-) One(r)
                   /\ UNCHANGED <<inaccessibleLinks, probeLog, ap, req>>
              ELSE /\ Len(inaccessibleLinks) < ChanCap(totalLinks)
                   /\ inaccessibleLinks' = Append(inaccessibleLinks, r.url)
                   /\ workers' = Replace(workers, r, Idle)
                   /\ probeLog' = probeLog (+) One(LogEntry(r, TRUE))
                   /\ UNCHANGED panicked
        /\ UNCHANGED <<analysis, ctxCancellable, cancelled, pc, pageLinks, totalLinks,
                       w, next, jobs, jobsClosed, inaccessibleClosed, wg, closer,
                       failedLinks, returned, ap, req>>

\* ---------------------------------------------------------------- AnalyzePage
\* Makefile:22-70: load, parse and analyse the page, then call
\* validateLinkAccessibility(ctx, logger, linkAnalysis)
AnalyzeStart ==
    /\ ap.pc = "called"
    /\ ap' = AnalyzeBegin(ap)
    /\ IF ap'.pc = "validating"
          THEN /\ pc' = "start"
               /\ analysis' = LinkAnalysis(
                                 Served(ap'.facets[1].links.val.InternalLinks),
                                 Served(ap'.facets[1].links.val.ExternalLinks))
          ELSE UNCHANGED <<pc, analysis>>
    /\ UNCHANGED <<ctxCancellable, cancelled, pageLinks, totalLinks, w, next, jobs,
                   jobsClosed, inaccessibleLinks, inaccessibleClosed, wg, workers,
                   closer, failedLinks, returned, panicked, probeLog, req>>

\* Makefile:70-85: the validator has returned; its error is assigned to _,
\* the count of its failedLinks is stored and (result, nil) is returned
AnalyzeFinish ==
    /\ ap.pc = "validating"
    /\ pc = "returned"
    /\ ap' = [ap EXCEPT !.pc = "returned",
                        !.ret = <<[result |-> <<Result(ap, returned[1].failedLinks)>>,
                                   err |-> "nil"]>>]
    /\ UNCHANGED <<analysis, ctxCancellable, cancelled, pc, pageLinks, totalLinks, w,
                   next, jobs, jobsClosed, inaccessibleLinks, inaccessibleClosed, wg,
                   workers, closer, failedLinks, returned, panicked, probeLog, req>>

\* -------------------------------------------------------------- handleRequest
\* main.go:47-50: any method but GET and POST is answered 405
HandleReject ==
    /\ req.pc = "received"
    /\ ~Allowed(req.method)
    /\ req' = [req EXCEPT !.status = 405, !.pc = "done"]
    /\ UNCHANGED <<analysis, ctxCancellable, cancelled, pc, pageLinks, totalLinks, w,
                   next, jobs, jobsClosed, inaccessibleLinks, inaccessibleClosed, wg,
                   workers, closer, failedLinks, returned, panicked, probeLog, ap>>

\* main.go:47-72 for a request that is let through and is no POST: the empty
\* TemplateData is rendered
HandleGet ==
    /\ req.pc = "received"
    /\ Allowed(req.method)
    /\ req.method # "POST"
    /\ \E ok \in BOOLEAN : req' = Execute(req, ok)
    /\ UNCHANGED <<analysis, ctxCancellable, cancelled, pc, pageLinks, totalLinks, w,
                   next, jobs, jobsClosed, inaccessibleLinks, inaccessibleClosed, wg,
                   workers, closer, failedLinks, returned, panicked, probeLog, ap>>

\* main.go:47-59 for a POST: data.URL is set and AnalyzePage is called with
\* context.Background() and the form's URL
HandlePost ==
    /\ req.pc = "received"
    /\ Allowed(req.method)
    /\ req.method = "POST"
    /\ \E c \in RequestCalls : c.pageURL = req.url /\ ap' = c
    /\ req' = [req EXCEPT !.pc = "analyzing", !.data.URL = req.url,
                          !.analyses = @ + 1]
    /\ UNCHANGED <<analysis, ctxCancellable, cancelled, pc, pageLinks, totalLinks, w,
                   next, jobs, jobsClosed, inaccessibleLinks, inaccessibleClosed, wg,
                   workers, closer, failedLinks, returned, panicked, probeLog>>

\* main.go:59-72: AnalyzePage has returned; Error or Results is set and the
\* template is rendered
HandleReturn ==
    /\ req.pc = "analyzing"
    /\ ap.pc = "returned"
    /\ \E ok \in BOOLEAN :
          req' = Execute([req EXCEPT !.data = WithOutcome(@, ap.ret[1])], ok)
    /\ UNCHANGED <<analysis, ctxCancellable, cancelled, pc, pageLinks, totalLinks, w,
                   next, jobs, jobsClosed, inaccessibleLinks, inaccessibleClosed, wg,
                   workers, closer, failedLinks, returned, panicked, probeLog, ap>>

\* ------------------------------------------------------------ specification
Next ==
    \/ Start
    \/ SpawnWorker
    \/ Enqueue
    \/ CloseJobs
    \/ GoCloser
    \/ CloserWait
    \/ CloserClose
    \/ DrainOne
    \/ Return
    \/ Cancel
    \/ WorkerRecv
    \/ WorkerExit
    \/ WorkerDo
    \/ WorkerWake
    \/ WorkerSend

Spec == Init /\ [][Next]_vars

\* every step of the program itself: all of Next but the caller's cancel()
Program ==
    \/ Start
    \/ SpawnWorker
    \/ Enqueue
    \/ CloseJobs
    \/ GoCloser
    \/ CloserWait
    \/ CloserClose
    \/ DrainOne
    \/ Return
    \/ WorkerRecv
    \/ WorkerExit
    \/ WorkerDo
    \/ WorkerWake
    \/ WorkerSend

\* the scheduler runs a goroutine that can run, every request gets its answer
\* or its timeout, and every time.Sleep ends
FairSpec == Spec /\ WF_vars(Program)

\* the validator under context.Background(), on the fixed-status servers
ProbeSpec == ProbeInit /\ [][Program]_vars

\* AnalyzePage and the validation run it starts
PageNext ==
    \/ AnalyzeStart
    \/ AnalyzeFinish
    \/ Program

PageSpec == PageInit /\ [][PageNext]_vars

\* handleRequest, the AnalyzePage call of a POST and its validation run
RequestNext ==
    \/ HandleReject
    \/ HandleGet
    \/ HandlePost
    \/ HandleReturn
    \/ AnalyzeStart
    \/ AnalyzeFinish
    \/ Program

RequestSpec == RequestInit /\ [][RequestNext]_vars


\* ------------------------------------------------------------------ measures
\* the number of elements of bag that satisfy P
CountWhere(bag, P(_)) ==
    BagCardinality([r \in {x \in BagToSet(bag) : P(x)} |-> CopiesIn(r, bag)])

InProbe(r) == r.pc \in {"do", "sleep", "send"}
HasExited(r) == r.pc = "exited"

\* probes (linkAccessibilityChecker invocations) that have not returned yet
InFlight == CountWhere(workers, InProbe)

\* the number of links of the caller's LinkSet
LinkCount == Len(analysis.InternalLinks) + Len(analysis.ExternalLinks)

\* the bag of the elements of a sequence
SeqToBag(s) == [u \in {s[k] : k \in 1..Len(s)} |-> Cardinality({k \in 1..Len(s) : s[k] = u})]

Occurrences(s, u) == Cardinality({k \in 1..Len(s) : s[k] = u})

\* what the servers do, read off the environment alone: the response is a
\* success, and the first attempt (0 if none within maxRetries) that gets one
Is2xx(resp) == resp.err = "" /\ resp.status \in 200..299

FirstSuccess(url) ==
    IF Malformed(url) \/ \A k \in 1..maxRetries : ~Is2xx(ServerResponse(url, k))
       THEN 0
       ELSE CHOOSE k \in 1..maxRetries :
               /\ Is2xx(ServerResponse(url, k))
               /\ \A j \in 1..(k - 1) : ~Is2xx(ServerResponse(url, j))

Log == BagToSet(probeLog)

\* -------------------------------------------------------------------- claims

\* C1: in every reachable state of a run over N links, the number of probes
\* in flight is at most min(numWorkers, N).
C1_BoundedParallelism == InFlight <= Min(numWorkers, LinkCount)

\* C1 witness: more links than the cap, and numWorkers probes in flight at once
C1_Witness == LinkCount > numWorkers /\ InFlight = numWorkers


\* C2: a probe whose every attempt failed with a transport error or a non-2xx
\* status made exactly maxRetries attempts and wrote its URL once; no probe
\* ever makes more than maxRetries attempts; and the failure collection holds
\* one entry per probe that wrote, so each wrote exactly once.
AllFailed(hist) ==
    Len(hist) > 0 /\ \A k \in 1..Len(hist) : hist[k] \in {"err", "non2xx"}

C2_RetryCeiling ==
    /\ \A e \in Log : AllFailed(e.hist) =>
          /\ e.attempts = maxRetries
          /\ Len(e.hist) = maxRetries
          /\ e.wrote
    /\ \A r \in Workers : r.attempts <= maxRetries /\ Len(r.hist) <= maxRetries
    /\ \A u \in URLs :
          Occurrences(inaccessibleLinks \o failedLinks, u)
             = CountWhere(probeLog, LAMBDA e : e.url = u /\ e.wrote)

\* C2 witness: a probe that got three non-2xx answers has returned, its URL is
\* in the failure collection
C2_Witness ==
    /\ \E e \in Log : e.hist = <<"non2xx", "non2xx", "non2xx">> /\ e.wrote
    /\ Occurrences(inaccessibleLinks \o failedLinks, "s500") = 1

\* C3: when a run that was never cancelled has returned, the FailureSet is, as
\* a bag, the links whose server never answers 2xx within maxRetries attempts
\* or whose URL is malformed; no probe that had a successful attempt wrote; and
\* the total-checked count is the number of links.
NeverReachable(url) == FirstSuccess(url) = 0

C3_AggregateAccuracy ==
    (pc = "returned" /\ ~cancelled) =>
        /\ SeqToBag(returned[1].failedLinks)
              = SeqToBag(SelectSeq(analysis.InternalLinks \o analysis.ExternalLinks,
                                   NeverReachable))
        /\ \A e \in Log : (\E k \in 1..Len(e.hist) : e.hist[k] = "2xx") => ~e.wrote
        /\ LinkCount > 0 => totalLinks = LinkCount

\* C3 witness: a never-cancelled run over a reachable and an unreachable link
\* has returned exactly the unreachable one
C3_Witness ==
    /\ pc = "returned"
    /\ ~cancelled
    /\ analysis.InternalLinks = <<"ok">>
    /\ analysis.ExternalLinks = <<"refused">>
    /\ returned[1].failedLinks = <<"refused">>


\* C4: a probe that the cancellation reached while its request was in flight
\* or while it slept starts no further attempt: it is never again at a
\* request, and it returns having written its URL. (The code has no branch
\* for a cancelled context, so the retry loop goes on.)
C4_CancellationNotRetried ==
    /\ \A r \in Workers : r.obs \in {"inflight", "sleep"} => r.pc # "do"
    /\ \A e \in Log : e.obs \in {"inflight", "sleep"} => e.wrote

\* C5: no URL is claimed from the work queue once the context is cancelled:
\* no probe, running or returned, was started on a URL claimed after the
\* cancellation.
C5_NoClaimAfterCancel ==
    /\ \A r \in Workers : InProbe(r) => ~r.claimedDone
    /\ \A e \in Log : ~e.claimedDone

\* C6: a probe whose backoff sleep the cancellation fell into abandons its
\* remaining retries: it goes from the sleep to reporting its URL, never to
\* another request.
C6_CancellableSleep ==
    \A r \in Workers : r.obs = "sleep" => r.pc = "send"

\* C7: an attempt started on an already cancelled context is not followed by a
\* backoff sleep.
C7_NoSleepWhenAlreadyCancelled ==
    \A r \in Workers : r.startedDone => r.pc # "sleep"

\* C8 as stated: no entry is read out of the failure collection into
\* failedLinks until every worker has finished.
C8_NoReadBeforeJoin ==
    Len(failedLinks) > 0 => (wg = 0 /\ \A r \in Workers : HasExited(r))

\* C8 as amended: the drain ends, and the FailureSet is returned, only after
\* every worker has finished and the failure collection has been closed and
\* emptied; the returned FailureSet then holds every entry the probes wrote.
C8_ReturnAfterJoin ==
    (pc = "returned" /\ LinkCount > 0) =>
        /\ wg = 0
        /\ \A r \in Workers : HasExited(r)
        /\ Len(inaccessibleLinks) = 0
        /\ Len(returned[1].failedLinks) = CountWhere(probeLog, LAMBDA e : e.wrote)

\* C8 witness: a run has returned a FailureSet of two entries
C8_Witness ==
    pc = "returned" /\ Len(returned[1].failedLinks) = 2 /\ wg = 0

\* C9: the failure collection is closed only when every worker has finished,
\* and no worker ever sends on the closed collection.
C9_CloseAfterJoin ==
    /\ inaccessibleClosed => (wg = 0 /\ \A r \in Workers : HasExited(r))
    /\ ~panicked

\* C9 witness: the collection is closed after two workers wrote to it
C9_Witness ==
    /\ inaccessibleClosed
    /\ CountWhere(workers, HasExited) = 2
    /\ CountWhere(probeLog, LAMBDA e : e.wrote) = 2

\* C10: a probe stops at its first successful attempt: a returned probe with a
\* 2xx outcome has it last and only there, made as many attempts as it has
\* outcomes, slept once per failure and wrote nothing; no probe goes on after
\* a 2xx; and a probe the cancellation never reached made exactly the number
\* of attempts its server needs to answer 2xx (2 for flaky1, 3 for flaky2).
C10_StopsAtFirstSuccess ==
    /\ \A e \in Log :
          (\E k \in 1..Len(e.hist) : e.hist[k] = "2xx") =>
             /\ e.hist[Len(e.hist)] = "2xx"
             /\ \A k \in 1..(Len(e.hist) - 1) : e.hist[k] # "2xx"
             /\ e.attempts = Len(e.hist)
             /\ e.sleeps = Len(e.hist) - 1
             /\ ~e.wrote
    /\ \A r \in Workers : \A k \in 1..Len(r.hist) : r.hist[k] # "2xx"
    /\ \A e \in Log :
          (e.obs = "none" /\ FirstSuccess(e.url) > 0) =>
             (e.attempts = FirstSuccess(e.url) /\ ~e.wrote)

\* C10 witness: a probe failed twice, succeeded at its third attempt and
\* returned without writing; another failed once and succeeded at its second
C10_Witness ==
    /\ \E e \in Log : e.hist = <<"err", "non2xx", "2xx">> /\ e.attempts = 3 /\ ~e.wrote
    /\ \E e \in Log : e.hist = <<"non2xx", "2xx">> /\ e.attempts = 2 /\ ~e.wrote


\* C11: a probe of a malformed URL ends on its first attempt: while it runs it
\* is only ever at the send of line 124, with one attempt counted, no request
\* issued and no sleep taken; when it has returned it has made one attempt, no
\* request, no sleep, and has written its URL; and the failure collection
\* holds the URL once per such probe.
C11_MalformedShortCircuit ==
    /\ \A r \in Workers : (InProbe(r) /\ Malformed(r.url)) =>
          (r.pc = "send" /\ r.attempts = 1 /\ r.i = 0 /\ Len(r.hist) = 0 /\ r.sleeps = 0)
    /\ \A e \in Log : Malformed(e.url) =>
          (e.attempts = 1 /\ Len(e.hist) = 0 /\ e.sleeps = 0 /\ e.wrote)
    /\ Occurrences(inaccessibleLinks \o failedLinks, "bad")
          = CountWhere(probeLog, LAMBDA e : Malformed(e.url))

\* C11 witness: the probe of a malformed URL has returned after one attempt
\* and the URL has reached the returned FailureSet
C11_Witness ==
    /\ \E e \in Log : Malformed(e.url) /\ e.attempts = 1 /\ e.wrote
    /\ pc = "returned"
    /\ returned[1].failedLinks = <<"bad">>

\* C12: the sleep that follows failed attempt k lasts initialBackoff * 2^(k-1),
\* whether the attempt failed with a transport error or a non-2xx status.
C12_BackoffDoubles ==
    \A r \in Workers : r.pc = "sleep" =>
        /\ Len(r.hist) = r.i + 1
        /\ r.backoff = initialBackoff * 2^(r.i)

\* C12 witness: one probe sleeps 2 s after a second attempt that got a non-2xx
\* status while another sleeps 1 s after a first attempt that got a transport
\* error
C12_Witness ==
    /\ \E r \in Workers : r.pc = "sleep" /\ r.i = 1 /\ r.backoff = 2
                          /\ r.hist[2] = "non2xx"
    /\ \E r \in Workers : r.pc = "sleep" /\ r.i = 0 /\ r.backoff = 1
                          /\ r.hist[1] = "err"

\* C13: a probe sleeps after a failed attempt only if attempts remain: no probe
\* sleeps after its maxRetries-th attempt, and a returned probe whose every
\* attempt failed took maxRetries - 1 sleeps. (The code sleeps after every
\* failed attempt, the last one included.)
C13_NoSleepAfterLastAttempt ==
    /\ \A r \in Workers : r.pc = "sleep" => r.i + 1 < maxRetries
    /\ \A e \in Log : AllFailed(e.hist) => e.sleeps = maxRetries - 1


\* C14: when every request and every sleep finishes and runnable goroutines
\* run, every run of validateLinkAccessibility returns, under every
\* interleaving and whether or not the context is cancelled.
C14_EventuallyReturns == <>(pc = "returned")

\* C14 witness: a run over links has returned after its workers left their
\* loops on the closed, empty work queue and the failure collection was closed
C14_Witness ==
    /\ pc = "returned"
    /\ LinkCount = 2
    /\ jobsClosed /\ Len(jobs) = 0
    /\ CountWhere(workers, HasExited) = 2
    /\ closer = "done"
    /\ inaccessibleClosed


\* the bag of the URLs of the elements of bag that satisfy P
UrlsWhere(bag, P(_)) ==
    [u \in {e.url : e \in {x \in BagToSet(bag) : P(x)}} |->
        CountWhere(bag, LAMBDA e : P(e) /\ e.url = u)]

\* C15: at every moment the entries in the failure collection and those
\* already read out of it are together exactly the URLs the probes have
\* written, each as often as it was written; and the returned FailureSet is
\* exactly the bag of all written URLs: nothing lost, duplicated or invented.
C15_NoLostOrDuplicatedEntry ==
    /\ SeqToBag(inaccessibleLinks \o failedLinks) = UrlsWhere(probeLog, LAMBDA e : e.wrote)
    /\ (pc = "returned" /\ LinkCount > 0) =>
          SeqToBag(returned[1].failedLinks) = UrlsWhere(probeLog, LAMBDA e : e.wrote)

\* C15 witness: two workers wrote the same URL and a run returned it twice
C15_Witness ==
    /\ pc = "returned"
    /\ returned[1].failedLinks = <<"s500", "s500">>
    /\ CountWhere(probeLog, LAMBDA e : e.wrote) = 2

\* C16: every URL occurrence placed on the work queue is, at every moment,
\* in exactly one place: still queued, being probed by one worker, or probed
\* (once); when a run that was never cancelled has returned, the probes that
\* ran are exactly the links of the LinkSet, one probe each.
C16_EachLinkProbedOnce ==
    /\ pc \in {"enqueue", "closeJobs", "goCloser", "drain", "returned"} =>
          SeqToBag(SubSeq(pageLinks, 1, next - 1))
             = SeqToBag(jobs) (+) UrlsWhere(workers, InProbe)
                              (+) UrlsWhere(probeLog, LAMBDA e : TRUE)
    /\ (pc = "returned" /\ ~cancelled) =>
          /\ UrlsWhere(probeLog, LAMBDA e : TRUE) = SeqToBag(pageLinks)
          /\ BagCardinality(probeLog) = LinkCount

\* C16 witness: a worker has finished one probe and is running the next while
\* another worker runs a probe of its own (pool of 10 over 11 links)
C16_Witness ==
    /\ LinkCount = 11
    /\ InFlight = 10
    /\ BagCardinality(probeLog) = 1
    /\ Len(jobs) = 0


\* C17: a run over N > 0 links never has more than min(numWorkers, N) workers,
\* and once the spawn loop is done it has exactly that many.
C17_PoolSize ==
    /\ BagCardinality(workers) <= Min(numWorkers, LinkCount)
    /\ wg <= Min(numWorkers, LinkCount)
    /\ (LinkCount > 0 /\ pc \in {"enqueue", "closeJobs", "goCloser", "drain", "returned"})
          => BagCardinality(workers) = Min(numWorkers, LinkCount)

\* C17 witness: the spawn loop has ended with 10 workers for 11 links
C17_Witness ==
    LinkCount = 11 /\ pc = "enqueue" /\ BagCardinality(workers) = 10 /\ wg = 10

\* C18: dispatch never blocks: the work queue never holds more than totalLinks
\* URLs, whenever the caller is at an enqueue the enqueue can proceed, whatever
\* the workers have consumed, and the queue is closed only when every link has
\* been enqueued.
C18_DispatchNeverBlocks ==
    /\ Len(jobs) <= totalLinks
    /\ pc = "enqueue" => ENABLED Enqueue
    /\ jobsClosed => (next = Len(pageLinks) + 1 /\ Len(pageLinks) = LinkCount)

\* C18 witness: all 11 links were enqueued before any worker received one,
\* and the queue is then closed
C18_Witness ==
    /\ LinkCount = 11
    /\ jobsClosed
    /\ Len(jobs) = 11
    /\ \A r \in Workers : r.pc = "recv"

\* C19: on an empty LinkSet the validator goes from its entry straight to the
\* return of (empty, nil): it is never anywhere else, it spawns no worker and
\* no closer, and touches neither channel nor the WaitGroup.
C19_EmptyLinkSet ==
    LinkCount = 0 =>
        /\ pc \in {"start", "returned"}
        /\ pc = "returned" => returned = <<[failedLinks |-> <<>>, err |-> "nil"]>>
        /\ workers = EmptyBag
        /\ wg = 0
        /\ closer = "none"
        /\ totalLinks = 0
        /\ jobs = <<>> /\ ~jobsClosed
        /\ inaccessibleLinks = <<>> /\ ~inaccessibleClosed

\* C19 witness: a run on the empty LinkSet has returned
C19_Witness ==
    LinkCount = 0 /\ pc = "returned" /\ Len(returned) = 1

\* C20: whatever the links and whether or not the context was cancelled, the
\* error the validator returns is nil; an unreachable URL shows only in the
\* FailureSet.
C20_NilError ==
    /\ Len(returned) <= 1
    /\ pc = "returned" <=> Len(returned) = 1
    /\ \A k \in 1..Len(returned) : returned[k].err = "nil"

\* C20 witness: a cancelled run over a malformed and an unreachable URL has
\* returned both in the FailureSet, with a nil error
C20_Witness ==
    /\ pc = "returned"
    /\ cancelled
    /\ SeqToBag(returned[1].failedLinks) = SeqToBag(<<"bad", "refused">>)
    /\ returned[1].err = "nil"


\* C21: an attempt's outcome is a success exactly when the server answered it
\* with a status in [200, 300) and no transport error; every other outcome
\* (transport error, 3xx, 4xx, 5xx) is one failed attempt followed by one
\* backoff sleep, and the probe goes on the same way whatever the failure was:
\* a probe that never gets a 2xx makes maxRetries attempts and writes its URL,
\* one that gets its first 2xx at attempt k makes k attempts and writes nothing.
Failures(hist) == Cardinality({k \in 1..Len(hist) : hist[k] # "2xx"})

C21_SuccessIsExactly2xx ==
    /\ \A r \in Workers : \A k \in 1..Len(r.hist) :
          (r.hist[k] = "2xx") <=> Is2xx(ServerResponse(r.url, k))
    /\ \A e \in Log :
          /\ \A k \in 1..Len(e.hist) :
                (e.hist[k] = "2xx") <=> Is2xx(ServerResponse(e.url, k))
          /\ ~Malformed(e.url) =>
                /\ e.attempts = Len(e.hist)
                /\ e.sleeps = Failures(e.hist)
                /\ e.attempts = IF FirstSuccess(e.url) = 0 THEN maxRetries
                                                          ELSE FirstSuccess(e.url)
                /\ e.wrote <=> (FirstSuccess(e.url) = 0)

\* C21 witness: a 300 answer was taken for a failure three times over and the
\* URL was written, as for a refused connection
C21_Witness ==
    \E e \in Log :
        /\ e.url = "s300"
        /\ e.hist = <<"non2xx", "non2xx", "non2xx">>
        /\ e.attempts = maxRetries
        /\ e.wrote


\* C22: the validator does not deduplicate. The sequence it works on is the
\* internal links followed by the external links, each in its order, and it is
\* enqueued in that order; a URL that occurs k times in it has been probed k
\* times when the run returns, and occurs in the FailureSet once for each of
\* those probes that wrote it.
Combined == analysis.InternalLinks \o analysis.ExternalLinks

C22_NoDeduplication ==
    /\ pc # "start" => pageLinks = Combined
    /\ pc \in {"enqueue", "closeJobs", "goCloser", "drain", "returned"} /\ Combined # <<>> =>
          /\ next - 1 <= Len(Combined)
          /\ Len(jobs) <= next - 1
          /\ jobs = SubSeq(Combined, next - Len(jobs), next - 1)
    /\ pc = "returned" =>
          \A u \in URLs :
             /\ CountWhere(probeLog, LAMBDA e : e.url = u) = Occurrences(Combined, u)
             /\ Occurrences(returned[1].failedLinks, u)
                   = CountWhere(probeLog, LAMBDA e : e.url = u /\ e.wrote)

\* C22 witness: the same URL as an internal and as an external link; both
\* probes failed and the FailureSet holds it twice
C22_Witness ==
    /\ pc = "returned"
    /\ analysis.InternalLinks = <<"s500">>
    /\ analysis.ExternalLinks = <<"s500">>
    /\ returned[1].failedLinks = <<"s500", "s500">>
    /\ CountWhere(probeLog, LAMBDA e : e.url = "s500" /\ e.wrote) = 2


\* C23: no step of validateLinkAccessibility changes what the caller's
\* LinkSet holds: InternalLinks and ExternalLinks keep their elements and
\* their order (the append of line 173 may write the external links into the
\* unused capacity behind InternalLinks, beyond its length).
C23_LinkSetUnchanged ==
    [][/\ analysis'.InternalLinks = analysis.InternalLinks
       /\ analysis'.ExternalLinks = analysis.ExternalLinks]_vars

\* C23 witness: the append wrote into the caller's backing array (9 internal
\* links in an array of 16 cells), and the run has returned
C23_Witness ==
    /\ pc = "returned"
    /\ Len(analysis.InternalLinks) = 9
    /\ Len(analysis.spare) = 7
    /\ analysis.spare[1] = analysis.ExternalLinks[1]
    /\ pageLinks = analysis.InternalLinks \o analysis.ExternalLinks


\* The phase a validation run is in, read off the calling goroutine and the
\* join: Idle (0) on entry, Dispatching (1) from the first spawn to
\* close(jobs), Draining (2) while workers are still running after that,
\* Joined (3) once the WaitGroup is at zero, Collected (4) once the failure
\* collection is closed and read out, Done (5) after the return.
Phase ==
    CASE pc = "start" -> 0
      [] pc \in {"spawn", "enqueue", "closeJobs"} -> 1
      [] pc \in {"goCloser", "drain"} ->
            IF wg > 0 THEN 2
            ELSE IF inaccessibleClosed /\ Len(inaccessibleLinks) = 0 THEN 4
            ELSE 3
      [] pc = "returned" -> 5

\* C29 as stated: every step of every validation run stays in its phase or
\* moves to the next one of Idle, Dispatching, Draining, Joined, Collected,
\* Done, so that a run passes through all of them in that order.
C29_EveryRunAllPhases == [][Phase' \in {Phase, Phase + 1}]_vars

\* C29 amended: a run over a non-empty LinkSet stays in its phase or moves to
\* the next one, never back and never past one; a run over an empty LinkSet
\* goes from Idle straight to Done.
C29_PhaseOrder ==
    [][/\ LinkCount > 0 => Phase' \in {Phase, Phase + 1}
       /\ LinkCount = 0 => (Phase' = Phase \/ (Phase = 0 /\ Phase' = 5))]_vars

\* C29 witness: a run over two links has reached Collected (all workers done,
\* the failure collection closed and read out) and has not returned yet
C29_Witness ==
    /\ LinkCount = 2
    /\ Phase = 4
    /\ Len(failedLinks) = 1


\* C30: within a probe the attempts are strictly sequential. While attempt n
\* is in flight the outcomes of exactly the n - 1 earlier attempts are known
\* and n - 1 backoff sleeps have completed; while the probe sleeps after
\* attempt n no request is in flight; so a probe has at most one request in
\* flight (requests issued minus outcomes known is 0 or 1).
C30_SequentialAttempts ==
    \A r \in Workers : r.pc \in {"do", "sleep"} =>
        /\ r.attempts = r.i + 1
        /\ r.attempts - Len(r.hist) \in {0, 1}
        /\ r.pc = "do" => Len(r.hist) = r.attempts - 1 /\ r.sleeps = r.attempts - 1
        /\ r.pc = "sleep" => Len(r.hist) = r.attempts /\ r.sleeps = r.attempts - 1

\* C30 witness: the third attempt of a probe is in flight after two failures
\* and two completed sleeps
C30_Witness ==
    \E r \in Workers :
        /\ r.pc = "do"
        /\ r.attempts = 3
        /\ r.hist = <<"err", "non2xx">>
        /\ r.sleeps = 2
        /\ r.backoff = 4


\* AnalyzePage has run its analyses (it is in, or past, the validation)
Analysed == ap.facets # <<>>

\* C24: whenever the page loaded, its body was read and the page URL parsed,
\* AnalyzePage returns a non-nil AnalysisResult and a nil error, whatever
\* errors its analyses returned; the result holds what each analysis gave.
C24_BestEffortPerFacet ==
    /\ ap.pc = "returned"
    /\ loadWebPage(ap.pageURL).err = "nil"
    /\ ~ap.bodyErr
    /\ ParseURL(ap.pageURL).err = "nil"
    => /\ ap.ret[1].err = "nil"
       /\ ap.ret[1].result # <<>>
       /\ Analysed
       /\ ap.ret[1].result[1].HTMLVersion = ap.facets[1].version.val
       /\ ap.ret[1].result[1].ContainsLoginForm = ap.facets[1].login.val
       /\ ap.ret[1].result[1].Links.InternalCount
             = Len(ap.facets[1].links.val.InternalLinks)

\* C24 witness: extractLinks returned an error (a malformed escape) and
\* AnalyzePage still returned its report, the good link counted and probed
C24_Witness ==
    /\ ap.pc = "returned"
    /\ ap.body.anchors = <<Anchor(<<"/", "%zz">>), Anchor(<<"/", "about">>)>>
    /\ ap.facets[1].links.err # "nil"
    /\ ap.ret[1].err = "nil"
    /\ ap.ret[1].result # <<>>
    /\ ap.ret[1].result[1].Links.InternalCount = 1
    /\ ap.ret[1].result[1].Links.InaccessibleCount = 0


\* C25: findHTMLVersion returns no error and one of five labels: "HTML5" when
\* the document's doctype is named html and has no attributes; otherwise, by
\* the doctype's public identifier read case-insensitively, "XHTML 1.0" if it
\* contains "xhtml 1.0", else "HTML 4.01" if it contains "html 4.01", else
\* "Unknown (Pre-HTML5)"; and "Unknown or No Doctype" when the document has no
\* doctype or the doctype has no public identifier.
VersionLabels ==
    {"HTML5", "XHTML 1.0", "HTML 4.01", "Unknown (Pre-HTML5)", "Unknown or No Doctype"}

HasDoctype(doc) == \E k \in 1..Len(doc.prolog) : IsDoctype(doc.prolog[k])

DoctypeOf(doc) == doc.prolog[CHOOSE k \in 1..Len(doc.prolog) : IsDoctype(doc.prolog[k])]

HasPublicId(dt) == \E k \in 1..Len(dt.Attr) : dt.Attr[k].Key = "public"

PublicIdOf(dt) == dt.Attr[CHOOSE k \in 1..Len(dt.Attr) : dt.Attr[k].Key = "public"].Val

VersionOf(doc) ==
    IF ~HasDoctype(doc) THEN "Unknown or No Doctype"
    ELSE LET dt == DoctypeOf(doc)
         IN  IF dt.Data = "html" /\ dt.Attr = <<>> THEN "HTML5"
             ELSE IF ~HasPublicId(dt) THEN "Unknown or No Doctype"
             ELSE IF Contains(ToLower(PublicIdOf(dt)), <<"x", "html", " ", "1.0">>)
                     THEN "XHTML 1.0"
             ELSE IF Contains(ToLower(PublicIdOf(dt)), <<"html", " ", "4.01">>)
                     THEN "HTML 4.01"
             ELSE "Unknown (Pre-HTML5)"

C25_HTMLVersionLabel ==
    Analysed =>
        /\ ap.facets[1].version.err = "nil"
        /\ ap.facets[1].version.val \in VersionLabels
        /\ ap.facets[1].version.val = VersionOf(ap.body)


\* the anchors of the analysed page as the claims about extractLinks sort them:
\* skipped (no href, or a trimmed href that is empty or starts with "#",
\* "mailto:" or "tel:"), unparsable, or placed
BaseURL == ParseURL(ap.pageURL).url

TrimmedHref(k) == TrimSpace(ap.body.anchors[k].href)

IsSkipped(k) ==
    \/ ~ap.body.anchors[k].hasHref
    \/ TrimmedHref(k) = <<>>
    \/ \E p \in {"#", "mailto:", "tel:"} : HasPrefix(TrimmedHref(k), <<p>>)

IsUnparsable(k) == ~IsSkipped(k) /\ ParseURL(TrimmedHref(k)).err # "nil"

IsPlaced(k) == ~IsSkipped(k) /\ ParseURL(TrimmedHref(k)).err = "nil"

Resolved(k) == ResolveReference(BaseURL, ParseURL(TrimmedHref(k)).url)

AnchorIndexes == [k \in 1..Len(ap.body.anchors) |-> k]

LinksAt(indexes) == [j \in 1..Len(indexes) |-> URLString(Resolved(indexes[j]))]

\* C26: extractLinks skips the anchors whose trimmed href is empty or starts
\* with "#", "mailto:" or "tel:"; every other anchor whose href parses is
\* placed, resolved against the base URL, in exactly one of InternalLinks (its
\* resolved host equals the base host) and ExternalLinks, in document order
\* and without deduplication.
C26_LinkPlacement ==
    Analysed =>
        /\ ap.facets[1].links.val.InternalLinks
              = LinksAt(SelectSeq(AnchorIndexes,
                           LAMBDA k : IsPlaced(k) /\ Resolved(k).Host = BaseURL.Host))
        /\ ap.facets[1].links.val.ExternalLinks
              = LinksAt(SelectSeq(AnchorIndexes,
                           LAMBDA k : IsPlaced(k) /\ Resolved(k).Host # BaseURL.Host))

\* C26 witness: " /about " and a protocol-relative link to another host were
\* resolved and placed, one internal and one external
C26_Witness ==
    /\ Analysed
    /\ ap.body.anchors = <<Anchor(<<" ", "/", "about", " ">>),
                           Anchor(<<"//", "google.com", "/", "x">>)>>
    /\ ap.facets[1].links.val.InternalLinks
          = << <<"https:", "//", "example.com", "/", "about">> >>
    /\ ap.facets[1].links.val.ExternalLinks
          = << <<"https:", "//", "google.com", "/", "x">> >>


\* C27: extractLinks returns a non-nil error exactly when at least one href
\* that is not skipped failed to parse, and it then still returns a link for
\* every other anchor that is not skipped.
C27_ErrorIffUnparsable ==
    Analysed =>
        /\ ap.facets[1].links.err # "nil"
              <=> \E k \in 1..Len(ap.body.anchors) : IsUnparsable(k)
        /\ Len(ap.facets[1].links.val.InternalLinks)
              + Len(ap.facets[1].links.val.ExternalLinks)
              = Cardinality({k \in 1..Len(ap.body.anchors) : IsPlaced(k)})

\* C27 witness: the page of TestExtractLinks "Invalid Href": an error, and the
\* good link returned
C27_Witness ==
    /\ Analysed
    /\ ap.body.anchors = <<Anchor(<<"http:", "//", "a", " ", "b.com", "/">>),
                           Anchor(<<"/", "about">>)>>
    /\ ap.facets[1].links.err # "nil"
    /\ ap.facets[1].links.val.InternalLinks
          = << <<"https:", "//", "example.com", "/", "about">> >>
    /\ ap.facets[1].links.val.ExternalLinks = <<>>


\* C28: detectLoginForm returns no error, and true exactly when some form
\* holds a password input together with a user-identifier input (type email,
\* or a name, id or placeholder containing "user" or "email", letter case
\* ignored) or with a button or submit input whose text or value contains
\* "log in" or "sign in" (letter case ignored), or when the document holds a
\* password input together with an email input or an input whose id or name
\* contains "user" or "login"; it is never true without a password input.
IsPassword(c) == c.Tag = "input" /\ c.Type = "password"

NamesUser(c) ==
    /\ c.Tag = "input"
    /\ \/ c.Type = "email"
       \/ \E attr \in {c.Name, c.Id, c.Placeholder} :
             \E word \in {"user", "email"} : Contains(ToLower(attr), <<word>>)

SaysLogIn(c) ==
    /\ c.Tag = "button" \/ (c.Tag = "input" /\ c.Type = "submit")
    /\ \E verb \in {"log", "sign"} : Contains(ToLower(c.Text \o c.Value), <<verb, " ", "in">>)

Among(elems, P(_)) == \E k \in 1..Len(elems) : P(elems[k])

LooksLikeLogin(doc) ==
    \/ \E i \in 1..Len(doc.forms) :
          /\ Among(doc.forms[i], IsPassword)
          /\ Among(doc.forms[i], NamesUser) \/ Among(doc.forms[i], SaysLogIn)
    \/ /\ Among(AllControls(doc), IsPassword)
       /\ Among(AllControls(doc),
                LAMBDA c : /\ c.Tag = "input"
                           /\ \/ c.Type = "email"
                              \/ \E attr \in {c.Id, c.Name} :
                                    \/ Contains(attr, <<"user">>)
                                    \/ Contains(attr, <<"log", "in">>))

C28_LoginFormDetection ==
    Analysed =>
        /\ ap.facets[1].login.err = "nil"
        /\ ap.facets[1].login.val <=> LooksLikeLogin(ap.body)
        /\ ap.facets[1].login.val => Among(AllControls(ap.body), IsPassword)

\* C28 witness: the first form has no password field, the second has one and
\* a "Sign In" submit
C28_Witness ==
    /\ Analysed
    /\ Len(ap.body.forms) = 2
    /\ ~Among(ap.body.forms[1], IsPassword)
    /\ Among(ap.body.forms[1], NamesUser)
    /\ Among(ap.body.forms[2], IsPassword)
    /\ Among(ap.body.forms[2], SaysLogIn)
    /\ ap.body.loose = <<>>
    /\ ap.facets[1].login.val


\* ------------------------------------------------------------------------ C31
\* what loadWebPage returned to AnalyzePage, once it has
Loaded == ap.load # <<>>

\* the attempt-th http.Get of the page got a status in [200,300)
PageServes2xx(attempt) ==
    LET resp == HttpGet(ap.pageURL, attempt)
    IN  resp.err = "" /\ resp.status >= 200 /\ resp.status < 300

\* C31: loadWebPage makes at most maxRetries attempts; it returns the response
\* with a nil error at the first attempt that got a 2xx status, and a nil
\* response with a non-nil error when none of the maxRetries attempts did: a
\* nil response never comes with a nil error.
C31_LoadWebPageNeverNilNil ==
    Loaded =>
        LET l == ap.load[1]
        IN  /\ l.attempts \in 1..maxRetries
            /\ (l.data = <<>>) <=> (l.err # "nil")
            /\ l.err = "nil" =>
                  /\ PageServes2xx(l.attempts)
                  /\ \A k \in 1..(l.attempts - 1) : ~PageServes2xx(k)
                  /\ l.data = <<HttpGet(ap.pageURL, l.attempts).status>>
            /\ l.err # "nil" =>
                  /\ l.attempts = maxRetries
                  /\ \A k \in 1..maxRetries : ~PageServes2xx(k)

\* C31 witness: every attempt got a 404 without a transport error, and
\* loadWebPage returned a nil response with the "access denied" error
C31_Witness ==
    /\ Loaded
    /\ \A k \in 1..maxRetries : HttpGet(ap.pageURL, k) = [err |-> "", status |-> 404]
    /\ ap.load[1].data = <<>>
    /\ ap.load[1].err = "access denied to the page"
    /\ ap.load[1].attempts = maxRetries


\* ------------------------------------------------------------------------ C32
\* a returned probe wrote its URL to the failure collection
Wrote(e) == e.wrote

\* the last answer a returned probe got was a 2xx status
ReportedSuccess(e) == Len(e.hist) > 0 /\ e.hist[Len(e.hist)] = "2xx"

\* C32: a probe that reports success writes nothing and every other probe
\* writes its URL once, so the entries written so far (those waiting in the
\* failure collection and those already read from it) are exactly the probes
\* that returned with a failure; the collection never holds more entries than
\* the total link count, and a worker that is at its write finds the
\* collection open with room left, so the write does not block.
C32_FailureWriteNeverBlocks ==
    /\ \A e \in Log : ReportedSuccess(e) => ~e.wrote
    /\ Len(inaccessibleLinks) + Len(failedLinks) = CountWhere(probeLog, Wrote)
    /\ BagCardinality(probeLog) + InFlight <= totalLinks
    /\ Len(inaccessibleLinks) <= totalLinks
    /\ \A r \in Workers :
          r.pc = "send" => /\ ~inaccessibleClosed
                           /\ Len(inaccessibleLinks) < ChanCap(totalLinks)

\* C32 witness: both links of the run fail; one probe has written its URL,
\* which has not been read yet, and the other probe is at its write
C32_Witness ==
    /\ totalLinks = 2
    /\ Len(inaccessibleLinks) = 1
    /\ failedLinks = <<>>
    /\ \E r \in Workers : r.pc = "send" /\ r.attempts = maxRetries


\* ------------------------------------------------------------------------ C33
\* AnalyzePage has returned an AnalysisResult
Reported == ap.pc = "returned" /\ ap.ret[1].result # <<>>

\* C33: in every AnalysisResult AnalyzePage returns, Links.InaccessibleCount
\* is the length of the FailureSet the validator returned for the links
\* extracted from the page, and is at most InternalCount + ExternalCount.
C33_InaccessibleCount ==
    Reported =>
        LET links == ap.ret[1].result[1].Links
            found == ap.facets[1].links.val
        IN  /\ pc = "returned"
            /\ analysis.InternalLinks = Served(found.InternalLinks)
            /\ analysis.ExternalLinks = Served(found.ExternalLinks)
            /\ links.InternalCount = Len(found.InternalLinks)
            /\ links.ExternalCount = Len(found.ExternalLinks)
            /\ links.InaccessibleCount = Len(returned[1].failedLinks)
            /\ links.InaccessibleCount <= links.InternalCount + links.ExternalCount

\* C33 witness: a page with one internal link that answers and one external
\* link that does not; the report counts one inaccessible link of two
C33_Witness ==
    /\ Reported
    /\ ap.ret[1].result[1].Links =
          [InternalCount |-> 1, ExternalCount |-> 1, InaccessibleCount |-> 1]
    /\ returned[1].failedLinks = <<"s500">>


\* ------------------------------------------------------------------------ C34
\* loadWebPage returned an error to AnalyzePage
LoadFailed == Loaded /\ ap.load[1].err # "nil"

\* C34: when loadWebPage returns an error, AnalyzePage returns a nil result
\* with that same error, and the validator is never started: it stays
\* uncalled, with no link handed over, no worker, no channel traffic and no
\* probe.
C34_LoadFailureStopsAnalysis ==
    LoadFailed =>
        /\ ap.pc = "returned"
        /\ ap.ret = <<[result |-> <<>>, err |-> ap.load[1].err]>>
        /\ ap.facets = <<>>
        /\ pc = "uncalled"
        /\ LinkCount = 0
        /\ Fresh
        /\ probeLog = EmptyBag

\* C34 witness: the page's server refuses every connection; AnalyzePage has
\* returned (nil, the transport error) and nothing was validated
C34_Witness ==
    /\ ap.pageURL = DownPage
    /\ ap.pc = "returned"
    /\ ap.load[1].attempts = maxRetries
    /\ ap.ret[1].result = <<>>
    /\ ap.ret[1].err \notin {"nil", "access denied to the page"}
    /\ pc = "uncalled"


\* ------------------------------------------------------------------------ C35
\* C35: a request whose method is neither GET nor POST is answered 405 and
\* nothing else: handleRequest never calls AnalyzePage for it, the validator
\* stays uncalled, and tmpl.Execute is never called.
C35_MethodNotAllowed ==
    (req.pc # "none" /\ req.method \notin {"GET", "POST"}) =>
        /\ req.pc \in {"received", "done"}
        /\ req.pc = "done" => req.status = 405
        /\ req.pc = "received" => req.status = 0
        /\ req.analyses = 0
        /\ ap = NoCall
        /\ pc = "uncalled"
        /\ ~req.executed
        /\ req.data = TemplateData

\* C35 witness: a PUT request has been answered 405
C35_Witness ==
    /\ req.method = "PUT"
    /\ req.pc = "done"
    /\ req.status = 405
    /\ ~req.executed


\* ------------------------------------------------------------------------ C36
\* the TemplateData's Error, its Results are set
ErrorSet == req.data.Error # ""
ResultsSet == req.data.Results # <<>>

\* C36: AnalyzePage is called only for a POST and at most once per request;
\* when handleRequest has finished a POST it has called AnalyzePage once and
\* exactly one of Error and Results is set: Error when AnalyzePage returned an
\* error, Results (the result AnalyzePage returned) otherwise; when it has
\* finished a GET neither is set.
C36_AnalysisOnlyOnPost ==
    /\ req.analyses <= 1
    /\ (req.analyses = 1 \/ ap # NoCall) => req.method = "POST"
    /\ (req.pc = "done" /\ req.method = "POST") =>
          /\ req.analyses = 1
          /\ ap.pc = "returned"
          /\ ErrorSet # ResultsSet
          /\ ErrorSet <=> ap.ret[1].err # "nil"
          /\ ResultsSet => req.data.Results = ap.ret[1].result
          /\ req.executed
    /\ (req.pc = "done" /\ req.method = "GET") =>
          /\ req.analyses = 0
          /\ ~ErrorSet
          /\ ~ResultsSet
          /\ req.executed

\* C36 witness: a POST for a page with two links, one of them inaccessible,
\* has been answered with the report as Results and no Error
C36_Witness ==
    /\ req.method = "POST"
    /\ req.pc = "done"
    /\ req.status = 200
    /\ req.analyses = 1
    /\ ~ErrorSet
    /\ ResultsSet
    /\ req.data.Results[1].Links =
          [InternalCount |-> 1, ExternalCount |-> 1, InaccessibleCount |-> 1]

====
